---- MODULE Spec2Model ----
(***************************************************************************)
(* State-machine model of roguh/postgres_playground:                       *)
(*   - database.WithTx, database.Pool   (src/pkg/database/connection.go)   *)
(*   - partitioningDemo, listenNotifyDemo, advisoryLocksDemo               *)
(*                                (src/examples/04_advanced_patterns.go)   *)
(*   - batchInserts, batchUpdates, copyFromDemo, batchWithPipeline         *)
(*                                (src/prompt-2-timescale.md)              *)
(*   - the seed program and the migrate program (src/unnamed/part_001)     *)
(*   - the schema and its queries (src/migrations, src/queries)            *)
(* pgx / pgxpool / PostgreSQL are the environment: their calls are modelled *)
(* by their documented outcomes at the call sites of the repository.       *)
(***************************************************************************)
EXTENDS Integers, Sequences, FiniteSets, TLC

VARIABLES
    \* ---- WithTx -------------------------------------------------------
    txpc,          \* position inside WithTx
    fnResult,      \* what fn did: "none" | "nil" | "err" | "panic"
    fnErr,         \* the error fn returned (an error value) or NilErr
    stmts,         \* statements fn executed through tx so far
    pending,       \* rows written by the open transaction, not yet durable
    committed,     \* rows made durable by Commit
    commitCalls,   \* calls of tx.Commit made by the current WithTx
    rollbackCalls, \* calls of tx.Rollback made by the current WithTx
    ret,           \* value WithTx returned (an error value, NilErr for nil)
    fnPanic,       \* value fn panicked with, or "none"
    panicVal,      \* value of the panic leaving WithTx, or "none"
    calls,         \* WithTx calls started so far
    commitOk,      \* outcome of tx.Commit in the current WithTx: "none" | "ok" | "failed"
    \* ---- pgxpool as configured by NewPool -----------------------------
    poolConn,      \* per connection: "absent" | "constructing" | "idle" |
                   \*                 "leased" | "destroyed"
    res,           \* per worker: the connection its *pgxpool.Conn holds, 0 = nil
    broken,        \* per connection: the link to the server is lost
    \* ---- callers of Pool.Acquire / Conn.Release ------------------------
    cpc,           \* per caller: position
    deadline,      \* per caller: its ctx carries a deadline
    releaseCalls,  \* per caller: Release calls made on the current lease
    rounds,        \* leases taken by callers that came back for another
    released,      \* some lease has been released already
    \* ---- advisoryLocksDemo --------------------------------------------
    pc,            \* per worker goroutine: position
    lockResult,    \* per worker: outcome of its pg_try_advisory_lock query
    lockOwner,     \* connection whose session holds advisory lock 12345, 0 = free
    results,       \* the buffered channel `results`
    resultsClosed, \* close(results) has run
    wg,            \* the WaitGroup counter
    mainpc,        \* the demo's own goroutine, ranging over results
    printed,       \* messages printed by the range loop
    \* ---- listenNotifyDemo ---------------------------------------------
    npc,           \* the demo's own goroutine: position
    xpc,           \* the pool.Exec call in progress: "none" | "dial" | "run"
    updates,       \* iterations of the UPDATE loop finished
    triggerOn,     \* trigger asset_update_notify is installed
    listening,     \* LISTEN asset_updates is in effect on conn's session
    srvQueue,      \* notifications the server has emitted to the session
    lpc,           \* goroutine calling WaitForNotification: position
    li,            \* its loop counter i
    pendingN,      \* the notification it received and has not forwarded yet
    notifyChan,    \* the buffered channel notifyChan
    notifyClosed,  \* close(notifyChan) has run
    kpc,           \* goroutine ranging over notifyChan: position
    received,      \* payloads it printed, in order
    \* ---- batchUpdates, method 3: temp-table merge inside WithTx ---------
    mpc,           \* position of the merge
    attempts,      \* merges started so far
    sites,         \* committed metadata of every row of table sites
    sitesTx,       \* metadata as the open transaction sees it
    sitesBefore,   \* sites when the current merge began
    tempExists,    \* batch_updates exists in the session's catalog
    staged,        \* rows of batch_updates (indices of the queued INSERTs)
    txAborted,     \* a statement failed: the transaction accepts no more
    mret,          \* what WithTx returned: "nil" | "err" | "none"
    successes,     \* merges that returned nil
    afterFirst,    \* sites after the first merge that returned nil
    \* ---- one batch job written by inline insert and by bulk-load --------
    jpc,           \* "choose" | "chosen" | "done"
    job,           \* the job's rows, in order (each row is its site name)
    table0,        \* the table before the job: name -> number of rows
    inlineTable,   \* the table after the inline multi-row INSERT
    inlineDone,    \* "no" | "ok" | "err"
    copyTable,     \* the table after CopyFrom
    copyDone,      \* "no" | "ok" | "err"
    \* ---- batchInserts, method 2: pgx.Batch through pool.SendBatch -------
    bpc,           \* position: "queue" | "send" | "exec" | "close" | "done"
    batchRuns,     \* runs of the method started so far
    queued,        \* batch.Len()
    issued,        \* statement -> times it was sent to the server in this run
    firstFail,     \* first statement the server fails, queued + 1 when none
    bi,            \* loop counter of the br.Exec() loop
    insertedCount, \* the count the method prints
    assetRows,     \* rows of table assets (committed)
    rowsBefore,    \* assetRows when the run began
    \* ---- the seed program: main, seedSites, seedAssets ------------------
    seedpc,        \* position of the seed program
    seedRuns,      \* runs of the program started so far
    seedI,         \* loop counter i of the running seed function
    batchLen,      \* batch.Len()
    batchSites,    \* site ids the queued asset rows refer to
    seededSites,   \* rows of table sites; their ids are 1..seededSites
    seededAssets,  \* rows of table assets
    assetSiteIds,  \* the site_id values found in table assets
    siteIDs,        \* the slice siteIDs read by seedAssets
    \* ---- partitioningDemo ------------------------------------------------
    tpc,           \* position of the demo
    partRuns,      \* runs of the demo started so far
    partI,         \* loop counter i of the partition loop
    partAborted,   \* a statement failed inside the setup transaction
    partsTx,       \* months with a partition, as the open transaction sees it
    parts,         \* months with a partition (committed)
    telemetryRows, \* rows of telemetry_data (committed)
    stmtFailed,    \* some statement of this run failed in the datastore
    errLogged,     \* the run logged an error
    statsPrinted,   \* the run printed its partition statistics
    \* ---- batchWithPipeline -----------------------------------------------
    qpc,           \* position of the function
    pipeRuns,      \* runs of the function started so far
    pipeQueued,    \* statements queued in the pipeline
    pipeBusy,      \* connection locked by an open pipeline, 0 = none
    tainted,       \* per connection: the run in which an operation on it failed, 0 = none
    syncErrLogged,  \* the run logged a Sync error
    \* ---- tables sites and assets under queries/*.sql ---------------------
    dbSites,       \* ids of the rows of table sites
    dbAssets,      \* rows of table assets: id, site_id, serial_number
    nextSiteId,    \* the id the next new site gets
    nextAssetId,   \* the id the next new asset gets
    lastOp,        \* the statement that ran last
    lastRejected,  \* the server rejected it
    cascaded,       \* assets the last DeleteSite deleted with the site
    \* ---- WithTx nested and its handle after return -----------------------
    wpc,           \* per nesting level: position of its WithTx call
    wpending,      \* per level: rows written by its open transaction
    wret,          \* per level: what its WithTx returned: "nil" | "err" | "none"
    nestCommitted, \* rows made durable
    lateExecs,     \* statements issued through the outer handle after return
    lateRejected,  \* those of them that were rejected
    committedAtReturn, \* nestCommitted when the outer WithTx returned
    nestCalls,      \* WithTx calls started so far
    \* ---- seedSites / seedAssets for any count ----------------------------
    chunkpc,       \* position of the seed function called
    seedFn,        \* the function called: "seedSites" | "seedAssets"
    count,         \* its argument count
    loopI,         \* its loop counter i
    curBatch,      \* batch.Len()
    sentBatches,   \* the sizes of the batches sent, in order
    queuedTimes,   \* per row: times it was queued
    seedRet,        \* how the call ended: "nil" | "err" | "panic", "none" while running
    \* ---- the migrate program on 001_initial_schema -----------------------
    migpc,         \* the file being run: "idle" | "up" | "down"
    migrations,    \* runs of the migrate program started so far
    stmtI,         \* statements of the file run so far
    schema,        \* the objects of the database (committed)
    schemaTx,      \* the objects as the running file sees them
    version,       \* schema_migrations.version: 0 = none, 1 = initial_schema
    dirty,         \* schema_migrations.dirty
    stmtErrors,    \* statements the server rejected
    forced,        \* the version was forced
    upsDone        \* up migrations that succeeded

txVars == <<txpc, fnResult, fnErr, fnPanic, stmts, pending, committed, commitCalls,
            rollbackCalls, ret, panicVal, calls, commitOk>>

poolVars == <<poolConn, res, broken>>

callerVars == <<cpc, deadline, releaseCalls, rounds, released>>

lockVars == <<pc, lockResult, lockOwner, results, resultsClosed, wg, mainpc,
              printed>>

notifyVars == <<npc, xpc, updates, triggerOn, listening, srvQueue, lpc, li,
                pendingN, notifyChan, notifyClosed, kpc, received>>

mergeVars == <<mpc, attempts, sites, sitesTx, sitesBefore, tempExists, staged,
               txAborted, mret, successes, afterFirst>>

bulkVars == <<jpc, job, table0, inlineTable, inlineDone, copyTable, copyDone>>

batchVars == <<bpc, batchRuns, queued, issued, firstFail, bi, insertedCount,
               assetRows, rowsBefore>>

seedVars == <<seedpc, seedRuns, seedI, batchLen, batchSites, seededSites,
              seededAssets, assetSiteIds, siteIDs>>

partVars == <<tpc, partRuns, partI, partAborted, partsTx, parts, telemetryRows, stmtFailed, errLogged, statsPrinted>>

pipeVars == <<qpc, pipeRuns, pipeQueued, pipeBusy, tainted, syncErrLogged>>

relVars == <<dbSites, dbAssets, nextSiteId, nextAssetId, lastOp, lastRejected, cascaded>>

nestVars == <<wpc, wpending, wret, nestCommitted, lateExecs, lateRejected,
              committedAtReturn, nestCalls>>

chunkVars == <<chunkpc, seedFn, count, loopI, curBatch, sentBatches, queuedTimes, seedRet>>

migVars == <<migpc, migrations, stmtI, schema, schemaTx, version, dirty, stmtErrors, forced, upsDone>>

vars == <<txVars, poolVars, callerVars, lockVars, notifyVars, mergeVars, bulkVars,
          batchVars, seedVars,
          partVars,
          pipeVars,
          relVars,
          nestVars,
          chunkVars,
          migVars>>

None == "none"

\* ---------------------------------------------------------------------
\* Bounds
\* ---------------------------------------------------------------------
MaxStmts == 2      \* statements one fn issues through its tx
MaxCalls == 2      \* successive WithTx calls
MaxConns == 2      \* cfg.MaxConns handed to NewPool
MaxRounds == 1     \* times a caller comes back for another lease

NumWorkers == 3     \* worker goroutines started (the demo starts 5)
ResultsCap == 5     \* make(chan string, 5)
NotifyCap == 5      \* make(chan *pgconn.Notification, 5)
NumUpdates == 3     \* for i := 0; i < 3; i++ { pool.Exec(UPDATE assets ...) }
NumWaits == 3       \* for i := 0; i < 3; i++ { WaitForNotification }

MaxAttempts == 4    \* times the merge is run, one after the other
NumStaged == 2      \* rows queued for batch_updates (the code queues 30)
NumSites == 3       \* rows of table sites
MaxRows == 3        \* rows of one batch job (the code sends 100 and 10000)
NumNames == 2       \* distinct site names
NumQueued == 3      \* statements queued in one pgx.Batch (the code queues 100)
MaxBatchRuns == 3   \* runs of the batch method, one after the other
NumSeedSites == 3   \* seedSites(ctx, pool, 1000)
NumSeedAssets == 4  \* seedAssets(ctx, pool, 100000)
SeedBatchSize == 2  \* if batch.Len() >= 100 { pool.SendBatch(ctx, batch) ... }
MaxSeedRuns == 2    \* runs of the seed program, one after the other
PrefixLen == 3      \* manufacturer[:3]
NumCallers == 5     \* goroutines that call pool.Acquire concurrently

Workers == 1..NumWorkers
Callers == 1..NumCallers
Handles == 1..(IF NumCallers > NumWorkers THEN NumCallers ELSE NumWorkers)
Conns == Handles

\* ---------------------------------------------------------------------
\* Go error values: fmt.Errorf with %v formats an operand into the text,
\* with %w it also makes the operand the result of Unwrap().
\* ---------------------------------------------------------------------
NilErr == [text |-> "nil", v |-> None, unwrap |-> <<>>]

NewErr(id) == [text |-> id, v |-> None, unwrap |-> <<>>]

Errorf(text, vOperand, wOperand) ==
    [text |-> text, v |-> vOperand, unwrap |-> <<wOperand>>]

FnErrs == {NewErr("fnErr1"), NewErr("fnErr2")}
DbErrs == {"dbErr1", "dbErr2"}
PanicVals == {"panic1", "panic2"}

RECURSIVE ErrorsIs(_, _)
ErrorsIs(err, target) ==
    \/ err = target
    \/ /\ err.unwrap # <<>>
       /\ ErrorsIs(err.unwrap[1], target)

\* ---------------------------------------------------------------------
\* WithTx (connection.go:117-142)
\* ---------------------------------------------------------------------
TxInit ==
    /\ txpc = "idle"
    /\ fnResult = None
    /\ fnErr = NilErr
    /\ fnPanic = None
    /\ stmts = 0
    /\ pending = 0
    /\ committed = 0
    /\ commitCalls = 0
    /\ rollbackCalls = 0
    /\ ret = NilErr
    /\ panicVal = None
    /\ calls = 0
    /\ commitOk = None

\* tx, err := pool.Begin(ctx); if err != nil { return fmt.Errorf("begin tx: %w", err) }
Begin ==
    /\ txpc \in {"idle", "returned", "panicked"}
    /\ calls < MaxCalls
    /\ calls' = calls + 1
    /\ fnResult' = None
    /\ fnErr' = NilErr
    /\ fnPanic' = None
    /\ stmts' = 0
    /\ pending' = 0
    /\ commitCalls' = 0
    /\ rollbackCalls' = 0
    /\ panicVal' = None
    /\ commitOk' = None
    /\ \/ /\ txpc' = "fn"
          /\ ret' = NilErr
       \/ \E d \in DbErrs :
            /\ txpc' = "returned"
            /\ ret' = Errorf("begin tx", None, NewErr(d))
    /\ UNCHANGED committed

\* fn(tx): a statement issued through the transaction handle
FnExec ==
    /\ txpc = "fn"
    /\ stmts < MaxStmts
    /\ stmts' = stmts + 1
    /\ pending' = pending + 1
    /\ UNCHANGED <<txpc, fnResult, fnErr, fnPanic, committed, commitCalls,
                   rollbackCalls, ret, panicVal, calls, commitOk>>

\* fn(tx) ends: returns nil, returns an error, or panics
FnReturn ==
    /\ txpc = "fn"
    /\ \/ /\ fnResult' = "nil"
          /\ fnErr' = NilErr
          /\ fnPanic' = None
          /\ txpc' = "commit"
       \/ \E e \in FnErrs :
            /\ fnResult' = "err"
            /\ fnErr' = e
            /\ fnPanic' = None
            /\ txpc' = "rollback"
       \/ \E p \in PanicVals :
            /\ fnResult' = "panic"
            /\ fnErr' = NilErr
            /\ fnPanic' = p
            /\ txpc' = "deferred"
    /\ UNCHANGED <<stmts, pending, committed, commitCalls, rollbackCalls,
                   ret, panicVal, calls, commitOk>>

\* if rbErr := tx.Rollback(ctx); rbErr != nil {
\*     return fmt.Errorf("rollback failed: %v, original error: %w", rbErr, err) }
\* return err
RollbackOnErrorMasking ==
    /\ txpc = "rollback"
    /\ rollbackCalls' = rollbackCalls + 1
    /\ pending' = 0
    /\ \/ ret' = fnErr
       \/ \E d \in DbErrs :
            ret' = Errorf("rollback failed", fnErr.text, NewErr(d))
    /\ txpc' = "returned"
    /\ UNCHANGED <<fnResult, fnErr, fnPanic, stmts, committed, commitCalls,
                   panicVal, calls, commitOk>>

RollbackOnError ==
    /\ txpc = "rollback"
    /\ rollbackCalls' = rollbackCalls + 1
    /\ pending' = 0
    /\ \/ ret' = fnErr
       \/ \E d \in DbErrs :
            ret' = Errorf("rollback failed", d, fnErr)
    /\ txpc' = "returned"
    /\ UNCHANGED <<fnResult, fnErr, fnPanic, stmts, committed, commitCalls,
                   panicVal, calls, commitOk>>

\* if err := tx.Commit(ctx); err != nil { return fmt.Errorf("commit failed: %w", err) }
\* return nil
CommitErrorDropped ==
    /\ txpc = "commit"
    /\ commitCalls' = commitCalls + 1
    /\ \/ /\ committed' = committed + pending
          /\ commitOk' = "ok"
       \/ /\ committed' = committed
          /\ commitOk' = "failed"
    /\ ret' = NilErr
    /\ pending' = 0
    /\ txpc' = "returned"
    /\ UNCHANGED <<fnResult, fnErr, fnPanic, stmts, rollbackCalls, panicVal,
                   calls>>

Commit ==
    /\ txpc = "commit"
    /\ commitCalls' = commitCalls + 1
    /\ \/ /\ committed' = committed + pending
          /\ commitOk' = "ok"
          /\ ret' = NilErr
       \/ \E d \in DbErrs :
            /\ committed' = committed
            /\ commitOk' = "failed"
            /\ ret' = Errorf("commit failed", None, NewErr(d))
    /\ pending' = 0
    /\ txpc' = "returned"
    /\ UNCHANGED <<fnResult, fnErr, fnPanic, stmts, rollbackCalls, panicVal,
                   calls>>

\* defer func() { if p := recover(); p != nil { _ = tx.Rollback(ctx); panic(p) } }()
DeferredRecoverNoRollback ==
    /\ txpc = "deferred"
    /\ panicVal' = fnPanic
    /\ txpc' = "panicked"
    /\ UNCHANGED <<fnResult, fnErr, fnPanic, stmts, pending, committed,
                   commitCalls, rollbackCalls, ret, calls, commitOk>>

DeferredRecover ==
    /\ txpc = "deferred"
    /\ rollbackCalls' = rollbackCalls + 1
    /\ pending' = 0
    /\ panicVal' = fnPanic
    /\ txpc' = "panicked"
    /\ UNCHANGED <<fnResult, fnErr, fnPanic, stmts, committed, commitCalls,
                   ret, calls, commitOk>>


\* ---------------------------------------------------------------------
\* Pool (connection.go:40-96): *pgxpool.Pool with MaxConns = cfg.MaxConns,
\* BeforeAcquire and AfterRelease returning true.
\* ---------------------------------------------------------------------
InPool(c) == poolConn[c] \in {"constructing", "idle", "leased"}

\* Stats(): TotalConns, IdleConns, AcquiredConns, MaxConns
TotalConns == Cardinality({c \in Conns : InPool(c)})
IdleConns == Cardinality({c \in Conns : poolConn[c] = "idle"})
AcquiredConns == Cardinality({c \in Conns : poolConn[c] = "leased"})
ConstructingConns == Cardinality({c \in Conns : poolConn[c] = "constructing"})

Exhausted ==
    /\ IdleConns = 0
    /\ TotalConns >= MaxConns

NewConn == CHOOSE c \in Conns : poolConn[c] = "absent" /\
                                  \A d \in Conns : poolConn[d] = "absent" => c <= d

PoolInit ==
    /\ poolConn = [c \in Conns |-> "absent"]
    /\ res = [w \in Handles |-> 0]
    /\ broken = [c \in Conns |-> FALSE]

\* pool.Acquire(ctx), an idle connection exists: BeforeAcquire returns true
\* and the connection is leased to the caller.
AcquireIdle(w) ==
    /\ res[w] = 0
    /\ \E c \in Conns :
         /\ poolConn[c] = "idle"
         /\ poolConn' = [poolConn EXCEPT ![c] = "leased"]
         /\ res' = [res EXCEPT ![w] = c]
    /\ UNCHANGED broken

\* pool.Acquire(ctx), no idle connection: a new one is dialled while the
\* pool is below poolConfig.MaxConns (connection.go:59).
AcquireNewUnbounded(w) ==
    /\ res[w] = 0
    /\ IdleConns = 0
    /\ \E c \in Conns : poolConn[c] = "absent"
    /\ poolConn' = [poolConn EXCEPT ![NewConn] = "constructing"]
    /\ res' = [res EXCEPT ![w] = NewConn]
    /\ UNCHANGED broken

AcquireNew(w) ==
    /\ res[w] = 0
    /\ IdleConns = 0
    /\ TotalConns < MaxConns
    /\ \E c \in Conns : poolConn[c] = "absent"
    /\ poolConn' = [poolConn EXCEPT ![NewConn] = "constructing"]
    /\ res' = [res EXCEPT ![w] = NewConn]
    /\ UNCHANGED broken

\* the dial of AcquireNew ends: the connection is leased to the caller
ConstructDone(w) ==
    /\ res[w] # 0
    /\ poolConn[res[w]] = "constructing"
    /\ poolConn' = [poolConn EXCEPT ![res[w]] = "leased"]
    /\ UNCHANGED <<res, broken>>

\* the dial of AcquireNew fails: Acquire returns the error
ConstructFail(w) ==
    /\ res[w] # 0
    /\ poolConn[res[w]] = "constructing"
    /\ poolConn' = [poolConn EXCEPT ![res[w]] = "absent"]
    /\ res' = [res EXCEPT ![w] = 0]
    /\ UNCHANGED broken

\* conn.Release(): a nil c.res returns at once; otherwise c.res is set to
\* nil and the connection goes back to the free list (AfterRelease returns
\* true, connection.go:70-73) unless it is closed, which destroys it.
ReleaseNoNilCheck(w) ==
    /\ poolConn' = [c \in Conns |->
                       IF c = res[w] THEN "idle" ELSE poolConn[c]]
    /\ UNCHANGED <<res, broken>>

Release(w) ==
    /\ IF res[w] = 0
         THEN UNCHANGED poolConn
         ELSE poolConn' = [poolConn EXCEPT
                  ![res[w]] = IF broken[res[w]] THEN "destroyed" ELSE "idle"]
    /\ res' = [res EXCEPT ![w] = 0]
    /\ UNCHANGED broken

\* ---------------------------------------------------------------------
\* Callers of the pool: NumCallers goroutines that each run
\*     conn, err := pool.Acquire(ctx); if err != nil { return }
\*     defer conn.Release()
\* (04_advanced_patterns.go:239-244), with a ctx that may carry a deadline
\* (connection.go:100) and a Release that may be called again on the same
\* lease by a later cleanup.
\* ---------------------------------------------------------------------
CallerInit ==
    /\ cpc = [w \in Callers |-> "start"]
    /\ deadline \in BOOLEAN
    /\ releaseCalls = [w \in Callers |-> 0]
    /\ rounds = 0
    /\ released = FALSE

CAcquireIdle(w) ==
    /\ cpc[w] = "start"
    /\ AcquireIdle(w)
    /\ cpc' = [cpc EXCEPT ![w] = "holding"]
    /\ UNCHANGED <<deadline, releaseCalls, rounds, released>>

CAcquireNew(w) ==
    /\ cpc[w] = "start"
    /\ AcquireNew(w)
    /\ cpc' = [cpc EXCEPT ![w] = "dial"]
    /\ UNCHANGED <<deadline, releaseCalls, rounds, released>>

CDialDone(w) ==
    /\ cpc[w] = "dial"
    /\ ConstructDone(w)
    /\ cpc' = [cpc EXCEPT ![w] = "holding"]
    /\ UNCHANGED <<deadline, releaseCalls, rounds, released>>

CDialFail(w) ==
    /\ cpc[w] = "dial"
    /\ ConstructFail(w)
    /\ cpc' = [cpc EXCEPT ![w] = "dialFailed"]
    /\ UNCHANGED <<deadline, releaseCalls, rounds, released>>

\* ctx.Done() fires while Acquire waits for a connection of an exhausted pool
CAcquireTimeoutAnyTime(w) ==
    /\ cpc[w] = "start"
    /\ deadline
    /\ cpc' = [cpc EXCEPT ![w] = "timedOut"]
    /\ UNCHANGED <<poolVars, deadline, releaseCalls, rounds, released>>

CAcquireTimeout(w) ==
    /\ cpc[w] = "start"
    /\ deadline
    /\ Exhausted
    /\ cpc' = [cpc EXCEPT ![w] = "timedOut"]
    /\ UNCHANGED <<poolVars, deadline, releaseCalls, rounds, released>>

\* conn.Release(), explicit or deferred; a second call on the same lease
CRelease(w) ==
    /\ cpc[w] \in {"holding", "released"}
    /\ releaseCalls[w] < 2
    /\ Release(w)
    /\ cpc' = [cpc EXCEPT ![w] = "released"]
    /\ releaseCalls' = [releaseCalls EXCEPT ![w] = @ + 1]
    /\ released' = TRUE
    /\ UNCHANGED <<deadline, rounds>>

\* the caller comes back for another lease
CAgain(w) ==
    /\ cpc[w] = "released"
    /\ rounds < MaxRounds
    /\ rounds' = rounds + 1
    /\ cpc' = [cpc EXCEPT ![w] = "start"]
    /\ releaseCalls' = [releaseCalls EXCEPT ![w] = 0]
    /\ UNCHANGED <<poolVars, deadline, released>>

Caller(w) ==
    \/ CAcquireIdle(w)
    \/ CAcquireNew(w)
    \/ CDialDone(w)
    \/ CDialFail(w)
    \/ CAcquireTimeout(w)
    \/ CRelease(w)
    \/ CAgain(w)

PoolFrame ==
    UNCHANGED <<txVars, lockVars, notifyVars, mergeVars, bulkVars,
                batchVars, seedVars,
                partVars,
                pipeVars,
                relVars,
                nestVars,
                chunkVars,
                migVars>>

PoolNext ==
    \/ \E w \in Callers : CAcquireIdle(w) /\ PoolFrame
    \/ \E w \in Callers : CAcquireNew(w) /\ PoolFrame
    \/ \E w \in Callers : CDialDone(w) /\ PoolFrame
    \/ \E w \in Callers : CDialFail(w) /\ PoolFrame
    \/ \E w \in Callers : CAcquireTimeout(w) /\ PoolFrame
    \/ \E w \in Callers : CRelease(w) /\ PoolFrame
    \/ \E w \in Callers : CAgain(w) /\ PoolFrame

\* ---------------------------------------------------------------------
\* advisoryLocksDemo (04_advanced_patterns.go:226-281)
\* ---------------------------------------------------------------------
LockInit ==
    /\ pc = [w \in Workers |-> "acquire"]
    /\ lockResult = [w \in Workers |-> None]
    /\ lockOwner = 0
    /\ results = <<>>
    /\ resultsClosed = FALSE
    /\ wg = NumWorkers
    /\ mainpc = "range"
    /\ printed = 0

\* results <- msg: blocks while the buffer is full
Send(w, msg) ==
    /\ Len(results) < ResultsCap
    /\ ~resultsClosed
    /\ results' = Append(results, <<w, msg>>)

\* conn, err := pool.Acquire(ctx)    (ctx = context.Background(): no deadline)
WAcquireIdle(w) ==
    /\ pc[w] = "acquire"
    /\ AcquireIdle(w)
    /\ pc' = [pc EXCEPT ![w] = "trylock"]
    /\ UNCHANGED <<lockResult, lockOwner, results, resultsClosed, wg, mainpc,
                   printed>>

WAcquireNew(w) ==
    /\ pc[w] = "acquire"
    /\ AcquireNew(w)
    /\ pc' = [pc EXCEPT ![w] = "dial"]
    /\ UNCHANGED <<lockResult, lockOwner, results, resultsClosed, wg, mainpc,
                   printed>>

WDialDone(w) ==
    /\ pc[w] = "dial"
    /\ ConstructDone(w)
    /\ pc' = [pc EXCEPT ![w] = "trylock"]
    /\ UNCHANGED <<lockResult, lockOwner, results, resultsClosed, wg, mainpc,
                   printed>>

\* Acquire returns the dial's error
WDialFail(w) ==
    /\ pc[w] = "dial"
    /\ ConstructFail(w)
    /\ pc' = [pc EXCEPT ![w] = "sendAcquireFailed"]
    /\ UNCHANGED <<lockResult, lockOwner, results, resultsClosed, wg, mainpc,
                   printed>>

\* if err != nil { results <- "failed to acquire connection"; return }
\* and the deferred wg.Done()
SendAcquireFailed(w) ==
    /\ pc[w] = "sendAcquireFailed"
    /\ Send(w, "failed to acquire connection")
    /\ wg' = wg - 1
    /\ pc' = [pc EXCEPT ![w] = "done"]
    /\ UNCHANGED <<poolVars, lockResult, lockOwner, resultsClosed, mainpc,
                   printed>>

\* err = conn.QueryRow(ctx, "SELECT pg_try_advisory_lock($1)", lockID).Scan(&acquired)
\* if err != nil || !acquired { results <- "couldn't acquire lock"; return }
\* The server grants the key to the session unless another session holds it,
\* and answers at once either way; a lost connection makes the query fail.
TryLockAlwaysGrants(w) ==
    /\ pc[w] = "trylock"
    /\ ~broken[res[w]]
    /\ lockOwner' = res[w]
    /\ lockResult' = [lockResult EXCEPT ![w] = "true"]
    /\ pc' = [pc EXCEPT ![w] = "sendGotLock"]
    /\ UNCHANGED <<poolVars, results, resultsClosed, wg, mainpc, printed>>

TryLockBlocking(w) ==
    /\ pc[w] = "trylock"
    /\ ~broken[res[w]]
    /\ lockOwner \in {0, res[w]}
    /\ lockOwner' = res[w]
    /\ lockResult' = [lockResult EXCEPT ![w] = "true"]
    /\ pc' = [pc EXCEPT ![w] = "sendGotLock"]
    /\ UNCHANGED <<poolVars, results, resultsClosed, wg, mainpc, printed>>

TryLock(w) ==
    /\ pc[w] = "trylock"
    /\ \/ /\ ~broken[res[w]]
          /\ lockOwner \in {0, res[w]}
          /\ lockOwner' = res[w]
          /\ lockResult' = [lockResult EXCEPT ![w] = "true"]
          /\ pc' = [pc EXCEPT ![w] = "sendGotLock"]
          /\ UNCHANGED broken
       \/ /\ ~broken[res[w]]
          /\ lockOwner \notin {0, res[w]}
          /\ lockOwner' = lockOwner
          /\ lockResult' = [lockResult EXCEPT ![w] = "false"]
          /\ pc' = [pc EXCEPT ![w] = "sendNoLock"]
          /\ UNCHANGED broken
       \/ /\ broken' = [broken EXCEPT ![res[w]] = TRUE]
          /\ lockOwner' = lockOwner
          /\ lockResult' = [lockResult EXCEPT ![w] = "err"]
          /\ pc' = [pc EXCEPT ![w] = "sendNoLock"]
    /\ UNCHANGED <<poolConn, res, results, resultsClosed, wg, mainpc, printed>>

SendNoLock(w) ==
    /\ pc[w] = "sendNoLock"
    /\ Send(w, "couldn't acquire lock")
    /\ pc' = [pc EXCEPT ![w] = "release"]
    /\ UNCHANGED <<poolVars, lockResult, lockOwner, resultsClosed, wg, mainpc,
                   printed>>

\* results <- "got lock, processing..."
SendGotLock(w) ==
    /\ pc[w] = "sendGotLock"
    /\ Send(w, "got lock, processing...")
    /\ pc' = [pc EXCEPT ![w] = "work"]
    /\ UNCHANGED <<poolVars, lockResult, lockOwner, resultsClosed, wg, mainpc,
                   printed>>

\* the connection of a sleeping worker is lost (server restart, backend
\* terminated, network): the goroutine does not notice
ConnDropped(w) ==
    /\ pc[w] = "work"
    /\ ~broken[res[w]]
    /\ broken' = [broken EXCEPT ![res[w]] = TRUE]
    /\ UNCHANGED <<poolConn, res, lockVars>>

\* the server ends the session of a lost connection and with it every
\* advisory lock the session holds
SessionEndKeepsLock(c) ==
    /\ broken[c]
    /\ lockOwner = c
    /\ UNCHANGED <<poolVars, lockVars>>

SessionEnd(c) ==
    /\ broken[c]
    /\ lockOwner = c
    /\ lockOwner' = 0
    /\ UNCHANGED <<poolVars, pc, lockResult, results, resultsClosed, wg, mainpc,
                   printed>>

\* time.Sleep(200 * time.Millisecond)
\* conn.Exec(ctx, "SELECT pg_advisory_unlock($1)", lockID)   (result ignored)
\* On a lost connection the call fails and unlocks nothing; on a live one
\* the server may refuse the statement (statement timeout, cancel request
\* of an administrator), which unlocks nothing either.
Unlock(w) ==
    /\ pc[w] = "work"
    /\ \E ok \in IF broken[res[w]] THEN {FALSE} ELSE BOOLEAN :
         lockOwner' = IF ok /\ lockOwner = res[w] THEN 0 ELSE lockOwner
    /\ pc' = [pc EXCEPT ![w] = "sendReleased"]
    /\ UNCHANGED <<poolVars, lockResult, results, resultsClosed, wg, mainpc,
                   printed>>

\* results <- "released lock"
SendReleased(w) ==
    /\ pc[w] = "sendReleased"
    /\ Send(w, "released lock")
    /\ pc' = [pc EXCEPT ![w] = "release"]
    /\ UNCHANGED <<poolVars, lockResult, lockOwner, resultsClosed, wg, mainpc,
                   printed>>

\* the deferred calls of a returning worker: conn.Release(), then wg.Done()
WRelease(w) ==
    /\ pc[w] = "release"
    /\ Release(w)
    /\ wg' = wg - 1
    /\ pc' = [pc EXCEPT ![w] = "done"]
    /\ UNCHANGED <<lockResult, lockOwner, results, resultsClosed, mainpc,
                   printed>>

\* go func() { wg.Wait(); close(results) }()
CloseResultsNoWait ==
    /\ ~resultsClosed
    /\ resultsClosed' = TRUE
    /\ UNCHANGED <<poolVars, pc, lockResult, lockOwner, results, wg, mainpc,
                   printed>>

CloseResults ==
    /\ wg = 0
    /\ ~resultsClosed
    /\ resultsClosed' = TRUE
    /\ UNCHANGED <<poolVars, pc, lockResult, lockOwner, results, wg, mainpc,
                   printed>>

\* for result := range results { fmt.Printf(...) }
RangeResults ==
    /\ mainpc = "range"
    /\ \/ /\ results # <<>>
          /\ results' = Tail(results)
          /\ printed' = printed + 1
          /\ UNCHANGED mainpc
       \/ /\ results = <<>>
          /\ resultsClosed
          /\ mainpc' = "done"
          /\ UNCHANGED <<results, printed>>
    /\ UNCHANGED <<poolVars, pc, lockResult, lockOwner, resultsClosed, wg>>

Worker(w) ==
    \/ WAcquireIdle(w)
    \/ WAcquireNew(w)
    \/ WDialDone(w)
    \/ WDialFail(w)
    \/ SendAcquireFailed(w)
    \/ TryLock(w)
    \/ SendNoLock(w)
    \/ SendGotLock(w)
    \/ Unlock(w)
    \/ SendReleased(w)
    \/ WRelease(w)

LockFrame ==
    UNCHANGED <<txVars, callerVars, notifyVars, mergeVars, bulkVars,
                batchVars, seedVars,
                partVars,
                pipeVars,
                relVars,
                nestVars,
                chunkVars,
                migVars>>

LockNext ==
    \/ \E w \in Workers : WAcquireIdle(w) /\ LockFrame
    \/ \E w \in Workers : WAcquireNew(w) /\ LockFrame
    \/ \E w \in Workers : WDialDone(w) /\ LockFrame
    \/ \E w \in Workers : WDialFail(w) /\ LockFrame
    \/ \E w \in Workers : SendAcquireFailed(w) /\ LockFrame
    \/ \E w \in Workers : TryLock(w) /\ LockFrame
    \/ \E w \in Workers : SendNoLock(w) /\ LockFrame
    \/ \E w \in Workers : SendGotLock(w) /\ LockFrame
    \/ \E w \in Workers : Unlock(w) /\ LockFrame
    \/ \E w \in Workers : SendReleased(w) /\ LockFrame
    \/ \E w \in Workers : WRelease(w) /\ LockFrame
    \/ \E w \in Workers : ConnDropped(w) /\ LockFrame
    \/ \E c \in Conns : SessionEnd(c) /\ LockFrame
    \/ CloseResults /\ LockFrame
    \/ RangeResults /\ LockFrame

\* ---------------------------------------------------------------------
\* listenNotifyDemo (04_advanced_patterns.go:134-224)
\* ---------------------------------------------------------------------
ListenHandle == 1     \* conn, err := pool.Acquire(ctx)
ExecHandle == 2       \* the connection pool.Exec leases for one statement

\* handle h holds a lease of the pool
Leased(h) == res[h] # 0 /\ poolConn[res[h]] = "leased"

ExecPositions ==
    {"createFunction", "attachTrigger", "update", "dropTrigger", "dropFunction"}

NotifyInit ==
    /\ npc = "createFunction"
    /\ xpc = None
    /\ updates = 0
    /\ triggerOn = FALSE
    /\ listening = FALSE
    /\ srvQueue = <<>>
    /\ lpc = None
    /\ li = 0
    /\ pendingN = 0
    /\ notifyChan = <<>>
    /\ notifyClosed = FALSE
    /\ kpc = None
    /\ received = <<>>

\* Position after the pool.Exec at position p returned; only the first
\* Exec's error is looked at (if err != nil { log.Printf; return }).
AfterExec(p, ok) ==
    CASE p = "createFunction" -> IF ok THEN "attachTrigger" ELSE "done"
      [] p = "attachTrigger" -> "acquire"
      [] p = "update" -> IF updates + 1 < NumUpdates THEN "update" ELSE "dropTrigger"
      [] p = "dropTrigger" -> "dropFunction"
      [] OTHER -> "return"

\* pool.Exec(ctx, ...) leases a connection of the pool for the statement
ExecAcquireIdle ==
    /\ npc \in ExecPositions
    /\ xpc = None
    /\ AcquireIdle(ExecHandle)
    /\ xpc' = "run"
    /\ UNCHANGED <<npc, updates, triggerOn, listening, srvQueue, lpc, li,
                   pendingN, notifyChan, notifyClosed, kpc, received>>

ExecAcquireNew ==
    /\ npc \in ExecPositions
    /\ xpc = None
    /\ AcquireNew(ExecHandle)
    /\ xpc' = "dial"
    /\ UNCHANGED <<npc, updates, triggerOn, listening, srvQueue, lpc, li,
                   pendingN, notifyChan, notifyClosed, kpc, received>>

ExecDialDone ==
    /\ xpc = "dial"
    /\ ConstructDone(ExecHandle)
    /\ xpc' = "run"
    /\ UNCHANGED <<npc, updates, triggerOn, listening, srvQueue, lpc, li,
                   pendingN, notifyChan, notifyClosed, kpc, received>>

ExecDialFail ==
    /\ xpc = "dial"
    /\ ConstructFail(ExecHandle)
    /\ xpc' = None
    /\ npc' = AfterExec(npc, FALSE)
    /\ updates' = IF npc = "update" THEN updates + 1 ELSE updates
    /\ UNCHANGED <<triggerOn, listening, srvQueue, lpc, li, pendingN,
                   notifyChan, notifyClosed, kpc, received>>

\* the connection of the running statement is lost
ExecConnLost ==
    /\ xpc = "run"
    /\ ~broken[res[ExecHandle]]
    /\ broken' = [broken EXCEPT ![res[ExecHandle]] = TRUE]
    /\ UNCHANGED <<poolConn, res, notifyVars>>

\* the statement runs on the leased connection, which pool.Exec then
\* releases; an UPDATE that succeeds fires the trigger, whose pg_notify
\* reaches the listening session
ExecRun ==
    /\ xpc = "run"
    /\ Release(ExecHandle)
    /\ xpc' = None
    /\ \E ok \in IF broken[res[ExecHandle]] THEN {FALSE} ELSE BOOLEAN :
         /\ npc' = AfterExec(npc, ok)
         /\ triggerOn' = CASE npc = "attachTrigger" -> ok
                           [] npc = "dropTrigger" /\ ok -> FALSE
                           [] npc = "dropFunction" /\ ok -> FALSE
                           [] OTHER -> triggerOn
         /\ srvQueue' = IF /\ npc = "update" /\ ok /\ triggerOn /\ listening
                           /\ Leased(ListenHandle) /\ ~broken[res[ListenHandle]]
                          THEN Append(srvQueue, updates + 1)
                          ELSE srvQueue
    /\ updates' = IF npc = "update" THEN updates + 1 ELSE updates
    /\ UNCHANGED <<listening, lpc, li, pendingN, notifyChan, notifyClosed, kpc,
                   received>>

\* conn, err := pool.Acquire(ctx); if err != nil { return }; defer conn.Release()
NAcquireIdle ==
    /\ npc = "acquire"
    /\ AcquireIdle(ListenHandle)
    /\ npc' = "listen"
    /\ UNCHANGED <<xpc, updates, triggerOn, listening, srvQueue, lpc, li,
                   pendingN, notifyChan, notifyClosed, kpc, received>>

NAcquireNew ==
    /\ npc = "acquire"
    /\ AcquireNew(ListenHandle)
    /\ npc' = "dial"
    /\ UNCHANGED <<xpc, updates, triggerOn, listening, srvQueue, lpc, li,
                   pendingN, notifyChan, notifyClosed, kpc, received>>

NDialDone ==
    /\ npc = "dial"
    /\ ConstructDone(ListenHandle)
    /\ npc' = "listen"
    /\ UNCHANGED <<xpc, updates, triggerOn, listening, srvQueue, lpc, li,
                   pendingN, notifyChan, notifyClosed, kpc, received>>

NDialFail ==
    /\ npc = "dial"
    /\ ConstructFail(ListenHandle)
    /\ npc' = "done"
    /\ UNCHANGED <<xpc, updates, triggerOn, listening, srvQueue, lpc, li,
                   pendingN, notifyChan, notifyClosed, kpc, received>>

\* _, err = conn.Exec(ctx, "LISTEN asset_updates"); if err != nil { return }
\* then the two goroutines are started
Listen ==
    /\ npc = "listen"
    /\ \/ /\ listening' = TRUE
          /\ npc' = "update"
          /\ lpc' = "call"
          /\ kpc' = "range"
       \/ /\ listening' = FALSE
          /\ npc' = "return"
          /\ UNCHANGED <<lpc, kpc>>
    /\ UNCHANGED <<poolVars, xpc, updates, triggerOn, srvQueue, li, pendingN,
                   notifyChan, notifyClosed, received>>

\* return: the deferred conn.Release()
NReturn ==
    /\ npc = "return"
    /\ Release(ListenHandle)
    /\ npc' = "done"
    /\ UNCHANGED <<xpc, updates, triggerOn, listening, srvQueue, lpc, li,
                   pendingN, notifyChan, notifyClosed, kpc, received>>

\* the listening connection is lost while it is leased
ListenConnLost ==
    /\ Leased(ListenHandle)
    /\ ~broken[res[ListenHandle]]
    /\ broken' = [broken EXCEPT ![res[ListenHandle]] = TRUE]
    /\ UNCHANGED <<poolConn, res, notifyVars>>

\* conn.Conn(), evaluated at the head of every iteration: on a conn whose
\* Release() has run the pool's resource is gone and the call panics
ConnCall ==
    /\ lpc = "call"
    /\ lpc' = IF res[ListenHandle] # 0 THEN "wait" ELSE "panicked"
    /\ UNCHANGED <<poolVars, npc, xpc, updates, triggerOn, listening, srvQueue,
                   li, pendingN, notifyChan, notifyClosed, kpc, received>>

\* notification, err := conn.Conn().WaitForNotification(ctx)
\* if err != nil { return }      (notifyChan is left open)
\* ctx is context.Background(): the call returns only with a notification
\* or with an error of the connection
WaitForNotification ==
    /\ lpc = "wait"
    /\ \/ /\ srvQueue # <<>>
          /\ pendingN' = Head(srvQueue)
          /\ srvQueue' = Tail(srvQueue)
          /\ lpc' = "send"
       \/ /\ Leased(ListenHandle)
          /\ broken[res[ListenHandle]]
          /\ lpc' = "returned"
          /\ UNCHANGED <<pendingN, srvQueue>>
    /\ UNCHANGED <<poolVars, npc, xpc, updates, triggerOn, listening, li,
                   notifyChan, notifyClosed, kpc, received>>

\* notifyChan <- notification; i++; after the loop close(notifyChan)
ForwardPrepend ==
    /\ lpc = "send"
    /\ Len(notifyChan) < NotifyCap
    /\ notifyChan' = <<pendingN>> \o notifyChan
    /\ pendingN' = 0
    /\ li' = li + 1
    /\ lpc' = IF li + 1 < NumWaits THEN "call" ELSE "close"
    /\ UNCHANGED <<poolVars, npc, xpc, updates, triggerOn, listening, srvQueue,
                   notifyClosed, kpc, received>>

Forward ==
    /\ lpc = "send"
    /\ Len(notifyChan) < NotifyCap
    /\ notifyChan' = Append(notifyChan, pendingN)
    /\ pendingN' = 0
    /\ li' = li + 1
    /\ lpc' = IF li + 1 < NumWaits THEN "call" ELSE "close"
    /\ UNCHANGED <<poolVars, npc, xpc, updates, triggerOn, listening, srvQueue,
                   notifyClosed, kpc, received>>

CloseNotifyChan ==
    /\ lpc = "close"
    /\ notifyClosed' = TRUE
    /\ lpc' = "done"
    /\ UNCHANGED <<poolVars, npc, xpc, updates, triggerOn, listening, srvQueue,
                   li, pendingN, notifyChan, kpc, received>>

\* for n := range notifyChan { fmt.Printf(...) }
RangeNotifyChan ==
    /\ kpc = "range"
    /\ \/ /\ notifyChan # <<>>
          /\ received' = Append(received, Head(notifyChan))
          /\ notifyChan' = Tail(notifyChan)
          /\ UNCHANGED kpc
       \/ /\ notifyChan = <<>>
          /\ notifyClosed
          /\ kpc' = "done"
          /\ UNCHANGED <<notifyChan, received>>
    /\ UNCHANGED <<poolVars, npc, xpc, updates, triggerOn, listening, srvQueue,
                   lpc, li, pendingN, notifyClosed>>

NotifyFrame ==
    UNCHANGED <<txVars, callerVars, lockVars, mergeVars, bulkVars,
                batchVars, seedVars,
                partVars,
                pipeVars,
                relVars,
                nestVars,
                chunkVars,
                migVars>>

NotifyNext ==
    \/ ExecAcquireIdle /\ NotifyFrame
    \/ ExecAcquireNew /\ NotifyFrame
    \/ ExecDialDone /\ NotifyFrame
    \/ ExecDialFail /\ NotifyFrame
    \/ ExecConnLost /\ NotifyFrame
    \/ ExecRun /\ NotifyFrame
    \/ NAcquireIdle /\ NotifyFrame
    \/ NAcquireNew /\ NotifyFrame
    \/ NDialDone /\ NotifyFrame
    \/ NDialFail /\ NotifyFrame
    \/ Listen /\ NotifyFrame
    \/ NReturn /\ NotifyFrame
    \/ ListenConnLost /\ NotifyFrame
    \/ ConnCall /\ NotifyFrame
    \/ WaitForNotification /\ NotifyFrame
    \/ Forward /\ NotifyFrame
    \/ CloseNotifyChan /\ NotifyFrame
    \/ RangeNotifyChan /\ NotifyFrame

\* ---------------------------------------------------------------------
\* batchUpdates, method 3 (prompt-2-timescale.md:1008-1050): inside
\* database.WithTx, CREATE TEMP TABLE batch_updates ... ON COMMIT DROP,
\* a batch of INSERTs into it, then UPDATE sites ... FROM batch_updates.
\* A jsonb object is a function from Keys to values, 0 for a missing key.
\* ---------------------------------------------------------------------
Keys == {"batch_process", "update_num", "region"}
SiteIds == 1..NumSites
StagedRows == 1..NumStaged

\* row i of the batch: site_name "Test Site i",
\* new_metadata {"batch_process": true, "update_num": i}
NewMetadata(i) ==
    [k \in Keys |-> CASE k = "batch_process" -> 1
                      [] k = "update_num" -> i
                      [] OTHER -> 0]

\* jsonb: a || b
ConcatAdd(a, b) == [k \in Keys |-> a[k] + b[k]]

Concat(a, b) == [k \in Keys |-> IF b[k] # 0 THEN b[k] ELSE a[k]]

\* UPDATE sites s SET metadata = s.metadata || bu.new_metadata
\* FROM batch_updates bu WHERE s.name = bu.site_name
JoinUpdate(tbl, rows) ==
    [s \in SiteIds |-> IF s \in rows THEN Concat(tbl[s], NewMetadata(s))
                                      ELSE tbl[s]]

InitialSites ==
    [s \in SiteIds |->
        [k \in Keys |-> CASE k = "region" -> s
                          [] k = "update_num" -> IF s = 1 THEN NumStaged + 1 ELSE 0
                          [] OTHER -> 0]]

MergeInit ==
    /\ mpc = "idle"
    /\ attempts = 0
    /\ sites = InitialSites
    /\ sitesTx = InitialSites
    /\ sitesBefore = InitialSites
    /\ tempExists = FALSE
    /\ staged = {}
    /\ txAborted = FALSE
    /\ mret = None
    /\ successes = 0
    /\ afterFirst = InitialSites

\* tx, err := pool.Begin(ctx); if err != nil { return fmt.Errorf(...) }
MBegin ==
    /\ mpc \in {"idle", "returned"}
    /\ attempts < MaxAttempts
    /\ attempts' = attempts + 1
    /\ sitesBefore' = sites
    /\ sitesTx' = sites
    /\ staged' = {}
    /\ txAborted' = FALSE
    /\ \/ mpc' = "create" /\ mret' = None
       \/ mpc' = "returned" /\ mret' = "err"
    /\ UNCHANGED <<sites, tempExists, successes, afterFirst>>

\* CREATE TEMP TABLE batch_updates (...) ON COMMIT DROP; if err != nil { return err }
MCreateTemp ==
    /\ mpc = "create"
    /\ \/ /\ ~tempExists
          /\ tempExists' = TRUE
          /\ mpc' = "populate"
          /\ UNCHANGED txAborted
       \/ /\ txAborted' = TRUE
          /\ mpc' = "rollback"
          /\ UNCHANGED tempExists
    /\ UNCHANGED <<attempts, sites, sitesTx, sitesBefore, staged, mret, successes,
                   afterFirst>>

\* br := tx.SendBatch(ctx, batch); br.Close()    (Close's error is dropped)
\* A failing INSERT aborts the transaction and the INSERTs queued after it.
MPopulateNoAbort ==
    /\ mpc = "populate"
    /\ \E n \in 0..NumStaged :
         /\ staged' = 1..n
         /\ txAborted' = FALSE
    /\ mpc' = "update"
    /\ UNCHANGED <<attempts, sites, sitesTx, sitesBefore, tempExists, mret,
                   successes, afterFirst>>

MPopulate ==
    /\ mpc = "populate"
    /\ \E n \in 0..NumStaged :
         /\ staged' = 1..n
         /\ txAborted' = (n < NumStaged)
    /\ mpc' = "update"
    /\ UNCHANGED <<attempts, sites, sitesTx, sitesBefore, tempExists, mret,
                   successes, afterFirst>>

\* result, err := tx.Exec(ctx, UPDATE sites ...); return err
MJoinUpdate ==
    /\ mpc = "update"
    /\ \/ /\ ~txAborted
          /\ sitesTx' = JoinUpdate(sitesTx, staged)
          /\ mpc' = "commit"
          /\ UNCHANGED txAborted
       \/ /\ txAborted' = TRUE
          /\ mpc' = "rollback"
          /\ UNCHANGED sitesTx
    /\ UNCHANGED <<attempts, sites, sitesBefore, tempExists, staged, mret,
                   successes, afterFirst>>

\* if err := fn(tx); err != nil { tx.Rollback(ctx); return ... }
\* The rollback undoes the CREATE TEMP TABLE with everything else; when
\* Rollback itself fails the connection is closed and its session ends.
MRollback ==
    /\ mpc = "rollback"
    /\ tempExists' = FALSE
    /\ staged' = {}
    /\ sitesTx' = sites
    /\ mret' = "err"
    /\ mpc' = "returned"
    /\ UNCHANGED <<attempts, sites, sitesBefore, txAborted, successes, afterFirst>>

\* if err := tx.Commit(ctx); err != nil { return fmt.Errorf(...) }; return nil
\* ON COMMIT DROP: the table goes at the end of the transaction
MCommitKeepsTemp ==
    /\ mpc = "commit"
    /\ sites' = sitesTx
    /\ mret' = "nil"
    /\ successes' = successes + 1
    /\ afterFirst' = IF successes = 0 THEN sitesTx ELSE afterFirst
    /\ mpc' = "returned"
    /\ UNCHANGED <<attempts, sitesTx, sitesBefore, tempExists, staged, txAborted>>

MCommit ==
    /\ mpc = "commit"
    /\ tempExists' = FALSE
    /\ staged' = {}
    /\ mpc' = "returned"
    /\ \/ /\ sites' = sitesTx
          /\ mret' = "nil"
          /\ successes' = successes + 1
          /\ afterFirst' = IF successes = 0 THEN sitesTx ELSE afterFirst
          /\ UNCHANGED sitesTx
       \/ /\ sitesTx' = sites
          /\ mret' = "err"
          /\ UNCHANGED <<sites, successes, afterFirst>>
    /\ UNCHANGED <<attempts, sitesBefore, txAborted>>

MergeFrame ==
    UNCHANGED <<txVars, poolVars, callerVars, lockVars, notifyVars,
                bulkVars, batchVars, seedVars,
                partVars,
                pipeVars,
                relVars,
                nestVars,
                chunkVars,
                migVars>>

MergeNext ==
    \/ MBegin /\ MergeFrame
    \/ MCreateTemp /\ MergeFrame
    \/ MPopulate /\ MergeFrame
    \/ MJoinUpdate /\ MergeFrame
    \/ MRollback /\ MergeFrame
    \/ MCommit /\ MergeFrame

\* ---------------------------------------------------------------------
\* One batch job written two ways into table sites:
\*   batchInserts, method 1 (prompt-2-timescale.md:821-856):
\*     INSERT INTO sites (...) VALUES (...), ... ON CONFLICT (name) DO NOTHING
\*   copyFromDemo (prompt-2-timescale.md:1091-1114): pool.CopyFrom
\* A table is a bag of rows, a row being its name: table[n] rows carry
\* name n.
\* ---------------------------------------------------------------------
Names == 1..NumNames

\* CREATE TABLE sites: id is the primary key, name is VARCHAR(255) NOT NULL
\* with no unique constraint or index
NameIsUnique == FALSE

RECURSIVE Jobs(_)
Jobs(n) ==
    IF n = 0 THEN {<<>>}
    ELSE Jobs(n - 1) \cup {Append(j, x) : j \in {q \in Jobs(n - 1) : Len(q) = n - 1},
                                           x \in Names}

Count(j, n) == Cardinality({i \in 1..Len(j) : j[i] = n})

\* INSERT ... VALUES <job> ON CONFLICT (name) DO NOTHING: the conflict
\* target needs a unique index on name, without one the statement is
\* rejected; with one, rows whose name is already there are skipped.  An
\* empty VALUES list is a syntax error.
InlineInsert(tbl, j) ==
    IF Len(j) = 0 \/ ~NameIsUnique
      THEN [ok |-> FALSE, tbl |-> tbl]
      ELSE [ok |-> TRUE,
            tbl |-> [n \in Names |->
                        IF tbl[n] = 0 /\ Count(j, n) > 0 THEN 1 ELSE tbl[n]]]

\* COPY sites FROM STDIN: every row is inserted; a row that violates a
\* unique index fails the whole COPY
CopyFrom(tbl, j) ==
    IF NameIsUnique /\ \E n \in Names : tbl[n] + Count(j, n) > 1
      THEN [ok |-> FALSE, tbl |-> tbl]
      ELSE [ok |-> TRUE, tbl |-> [n \in Names |-> tbl[n] + Count(j, n)]]

EmptyTable == [n \in Names |-> 0]

BulkInit ==
    /\ jpc = "choose"
    /\ job = <<>>
    /\ table0 = EmptyTable
    /\ inlineTable = EmptyTable
    /\ inlineDone = "no"
    /\ copyTable = EmptyTable
    /\ copyDone = "no"

\* the job and the table it is written to
ChooseJob ==
    /\ jpc = "choose"
    /\ job' \in Jobs(MaxRows)
    /\ table0' \in [Names -> 0..1]
    /\ inlineTable' = table0'
    /\ copyTable' = table0'
    /\ jpc' = "chosen"
    /\ UNCHANGED <<inlineDone, copyDone>>

\* rows, err := pool.Query(ctx, query, args...)
RunInlineInsert ==
    /\ jpc = "chosen"
    /\ inlineDone = "no"
    /\ inlineTable' = InlineInsert(table0, job).tbl
    /\ inlineDone' = IF InlineInsert(table0, job).ok THEN "ok" ELSE "err"
    /\ UNCHANGED <<jpc, job, table0, copyTable, copyDone>>

\* copyCount, err := pool.CopyFrom(ctx, ...)
RunCopyFrom ==
    /\ jpc = "chosen"
    /\ copyDone = "no"
    /\ copyTable' = CopyFrom(table0, job).tbl
    /\ copyDone' = IF CopyFrom(table0, job).ok THEN "ok" ELSE "err"
    /\ UNCHANGED <<jpc, job, table0, inlineTable, inlineDone>>

FinishJob ==
    /\ jpc = "chosen"
    /\ inlineDone # "no"
    /\ copyDone # "no"
    /\ jpc' = "done"
    /\ UNCHANGED <<job, table0, inlineTable, inlineDone, copyTable, copyDone>>

BulkFrame ==
    UNCHANGED <<txVars, poolVars, callerVars, lockVars, notifyVars,
                mergeVars, batchVars, seedVars,
                partVars,
                pipeVars,
                relVars,
                nestVars,
                chunkVars,
                migVars>>

BulkNext ==
    \/ ChooseJob /\ BulkFrame
    \/ RunInlineInsert /\ BulkFrame
    \/ RunCopyFrom /\ BulkFrame
    \/ FinishJob /\ BulkFrame

\* ---------------------------------------------------------------------
\* batchInserts, method 2 (prompt-2-timescale.md:858-891): NumQueued
\* INSERTs queued in a pgx.Batch, sent with pool.SendBatch, their results
\* read with br.Exec() and counted.
\* ---------------------------------------------------------------------
Statements == 1..NumQueued

BatchInit ==
    /\ bpc = "queue"
    /\ batchRuns = 1
    /\ queued = 0
    /\ issued = [i \in Statements |-> 0]
    /\ firstFail = 0
    /\ bi = 0
    /\ insertedCount = 0
    /\ assetRows = 0
    /\ rowsBefore = 0

\* for i := 0; i < 100; i++ { batch.Queue(INSERT INTO assets ...) }
Queue ==
    /\ bpc = "queue"
    /\ queued' = queued + 1
    /\ bpc' = IF queued + 1 < NumQueued THEN "queue" ELSE "send"
    /\ UNCHANGED <<batchRuns, issued, firstFail, bi, insertedCount, assetRows,
                   rowsBefore>>

\* br := pool.SendBatch(ctx, batch): every queued statement goes to the
\* server in one message sequence closed by one Sync.  The server runs
\* them in order in one implicit transaction: at the first statement that
\* fails it skips the rest and the Sync rolls back what the earlier ones
\* did; when none fails the Sync commits.
SendBatch ==
    /\ bpc = "send"
    /\ issued' = [i \in Statements |-> issued[i] + 1]
    /\ \E f \in 1..(NumQueued + 1) :
         /\ firstFail' = f
         /\ assetRows' = IF f = NumQueued + 1 THEN assetRows + NumQueued
                                               ELSE assetRows
    /\ bpc' = "exec"
    /\ UNCHANGED <<batchRuns, queued, bi, insertedCount, rowsBefore>>

\* for i := 0; i < batch.Len(); i++ { _, err := br.Exec(); if err == nil { insertedCount++ } }
\* br.Exec() returns the result of the next statement; from the first
\* failed statement on it returns that statement's error.
BrExec ==
    /\ bpc = "exec"
    /\ bi < queued
    /\ insertedCount' = IF bi + 1 < firstFail THEN insertedCount + 1
                                               ELSE insertedCount
    /\ bi' = bi + 1
    /\ bpc' = IF bi + 1 < queued THEN "exec" ELSE "close"
    /\ UNCHANGED <<batchRuns, queued, issued, firstFail, assetRows, rowsBefore>>

\* fmt.Printf("Inserted %d assets", insertedCount); the deferred br.Close()
BrClose ==
    /\ bpc = "close"
    /\ bpc' = "done"
    /\ UNCHANGED <<batchRuns, queued, issued, firstFail, bi, insertedCount,
                   assetRows, rowsBefore>>

\* the method is run again on the table the last run left
BatchAgain ==
    /\ bpc = "done"
    /\ batchRuns < MaxBatchRuns
    /\ batchRuns' = batchRuns + 1
    /\ bpc' = "queue"
    /\ queued' = 0
    /\ issued' = [i \in Statements |-> 0]
    /\ firstFail' = 0
    /\ bi' = 0
    /\ insertedCount' = 0
    /\ rowsBefore' = assetRows
    /\ UNCHANGED assetRows

BatchFrame ==
    UNCHANGED <<txVars, poolVars, callerVars, lockVars, notifyVars,
                mergeVars, bulkVars, seedVars,
                partVars,
                pipeVars,
                relVars,
                nestVars,
                chunkVars,
                migVars>>

BatchNext ==
    \/ Queue /\ BatchFrame
    \/ SendBatch /\ BatchFrame
    \/ BrExec /\ BatchFrame
    \/ BrClose /\ BatchFrame
    \/ BatchAgain /\ BatchFrame

\* ---------------------------------------------------------------------
\* The seed program (unnamed/part_001): main (395-437), seedSites
\* (217-277), seedAssets (279-357).  Site ids are 1..seededSites.  A batch
\* sent with pool.SendBatch is inserted as a whole or not at all.
\* ---------------------------------------------------------------------
\* manufacturers := []string{...}, each with its length
ManufacturerLen ==
    [m \in {"Cisco", "Dell", "HP", "Ubiquiti", "APC", "Panduit", "Honeywell"} |->
        CASE m = "Cisco" -> 5
          [] m = "Dell" -> 4
          [] m = "HP" -> 2
          [] m = "Ubiquiti" -> 8
          [] m = "APC" -> 3
          [] m = "Panduit" -> 7
          [] OTHER -> 9]

Manufacturers == DOMAIN ManufacturerLen

SeedInit ==
    /\ seedpc = "check"
    /\ seedRuns = 1
    /\ seedI = 0
    /\ batchLen = 0
    /\ batchSites = {}
    /\ seededSites = 0
    /\ seededAssets = 0
    /\ assetSiteIds = {}
    /\ siteIDs = {}

\* err = pool.QueryRow(ctx, "SELECT COUNT(*) FROM sites").Scan(&count)
\* if err != nil { log.Fatal }; if count > 0 { return }
CheckSeeded ==
    /\ seedpc = "check"
    /\ \/ seedpc' = "fatal"
       \/ seedpc' = IF seededSites > 0 THEN "done" ELSE "sites"
    /\ UNCHANGED <<seedRuns, seedI, batchLen, batchSites, seededSites,
                   seededAssets, assetSiteIds, siteIDs>>

\* seedSites: one iteration of for i := 0; i < count; i++: batch.Queue,
\* and when batch.Len() >= 100 the batch is sent and a new one begun
SeedSiteRow ==
    /\ seedpc = "sites"
    /\ seedI < NumSeedSites
    /\ seedI' = seedI + 1
    /\ IF batchLen + 1 >= SeedBatchSize
         THEN \/ /\ seededSites' = seededSites + batchLen + 1
                 /\ batchLen' = 0
                 /\ UNCHANGED seedpc
              \/ /\ seedpc' = "fatal"
                 /\ UNCHANGED <<seededSites, batchLen>>
         ELSE /\ batchLen' = batchLen + 1
              /\ UNCHANGED <<seedpc, seededSites>>
    /\ UNCHANGED <<seedRuns, batchSites, seededAssets, assetSiteIds, siteIDs>>

\* seedSites: if batch.Len() > 0 { send the final batch }; return nil
SeedSitesFinal ==
    /\ seedpc = "sites"
    /\ seedI = NumSeedSites
    /\ \/ /\ seededSites' = seededSites + batchLen
          /\ seedpc' = "query"
       \/ /\ batchLen > 0
          /\ seedpc' = "fatal"
          /\ UNCHANGED seededSites
    /\ batchLen' = 0
    /\ seedI' = 0
    /\ UNCHANGED <<seedRuns, batchSites, seededAssets, assetSiteIds, siteIDs>>

\* seedAssets: rows, err := pool.Query(ctx, "SELECT id FROM sites") ...
\* if len(siteIDs) == 0 { return fmt.Errorf("no sites found") }
QuerySiteIDs ==
    /\ seedpc = "query"
    /\ \/ /\ seededSites > 0
          /\ siteIDs' = 1..seededSites
          /\ seedpc' = "assets"
       \/ /\ seedpc' = "fatal"
          /\ UNCHANGED siteIDs
    /\ UNCHANGED <<seedRuns, seedI, batchLen, batchSites, seededSites,
                   seededAssets, assetSiteIds>>

\* seedAssets: one iteration of the loop.  manufacturer[:3] panics for a
\* manufacturer shorter than 3 bytes.
SeedAssetRow ==
    /\ seedpc = "assets"
    /\ seedI < NumSeedAssets
    /\ \E m \in Manufacturers, site \in siteIDs :
         IF ManufacturerLen[m] < PrefixLen
           THEN /\ seedpc' = "panicked"
                /\ UNCHANGED <<seedI, batchLen, batchSites, seededAssets,
                               assetSiteIds>>
           ELSE /\ seedI' = seedI + 1
                /\ IF batchLen + 1 >= SeedBatchSize
                     THEN \/ /\ seededAssets' = seededAssets + batchLen + 1
                             /\ assetSiteIds' =
                                    assetSiteIds \cup batchSites \cup {site}
                             /\ batchLen' = 0
                             /\ batchSites' = {}
                             /\ UNCHANGED seedpc
                          \/ /\ seedpc' = "fatal"
                             /\ UNCHANGED <<seededAssets, assetSiteIds, batchLen,
                                            batchSites>>
                     ELSE /\ batchLen' = batchLen + 1
                          /\ batchSites' = batchSites \cup {site}
                          /\ UNCHANGED <<seedpc, seededAssets, assetSiteIds>>
    /\ UNCHANGED <<seedRuns, seededSites, siteIDs>>

\* seedAssets: if batch.Len() > 0 { send the final batch }; return nil;
\* main prints the statistics
SeedAssetsFinal ==
    /\ seedpc = "assets"
    /\ seedI = NumSeedAssets
    /\ \/ /\ seededAssets' = seededAssets + batchLen
          /\ assetSiteIds' = assetSiteIds \cup batchSites
          /\ seedpc' = "done"
       \/ /\ batchLen > 0
          /\ seedpc' = "fatal"
          /\ UNCHANGED <<seededAssets, assetSiteIds>>
    /\ batchLen' = 0
    /\ batchSites' = {}
    /\ UNCHANGED <<seedRuns, seedI, seededSites, siteIDs>>

\* the program is started again on the database the last run left
SeedAgain ==
    /\ seedpc \in {"done", "fatal", "panicked"}
    /\ seedRuns < MaxSeedRuns
    /\ seedRuns' = seedRuns + 1
    /\ seedpc' = "check"
    /\ seedI' = 0
    /\ batchLen' = 0
    /\ batchSites' = {}
    /\ siteIDs' = {}
    /\ UNCHANGED <<seededSites, seededAssets, assetSiteIds>>

SeedFrame ==
    UNCHANGED <<txVars, poolVars, callerVars, lockVars, notifyVars, mergeVars,
                bulkVars, batchVars,
                partVars,
                pipeVars,
                relVars,
                nestVars,
                chunkVars,
                migVars>>

SeedNext ==
    \/ CheckSeeded /\ SeedFrame
    \/ SeedSiteRow /\ SeedFrame
    \/ SeedSitesFinal /\ SeedFrame
    \/ QuerySiteIDs /\ SeedFrame
    \/ SeedAssetRow /\ SeedFrame
    \/ SeedAssetsFinal /\ SeedFrame
    \/ SeedAgain /\ SeedFrame


\* ---------------------------------------------------------------------
\* partitioningDemo (04_advanced_patterns.go:32-132).  Months are counted
\* relative to the month of time.Now(): the partitions made are those of
\* months 0, -1 and -2.  The queued rows have timestamps from two months
\* back to 99 days after that, in increasing order: they fall in months
\* -2, -1, 0 and, from the day the current month ends, in month 1.
\* ---------------------------------------------------------------------
NumPartitions == 3   \* for i := 0; i < 3; i++
MaxPartRuns == 4     \* runs of the demo

PartitionMonths == {0 - i : i \in 0..(NumPartitions - 1)}

\* the month of every queued telemetry row, in the order queued
RowMonths == <<0 - 2, 0 - 1, 0, 1>>

PartInit ==
    /\ tpc = "begin"
    /\ partRuns = 1
    /\ partI = 0
    /\ partAborted = FALSE
    /\ partsTx = {}
    /\ parts = {}
    /\ telemetryRows = 0
    /\ stmtFailed = FALSE
    /\ errLogged = FALSE
    /\ statsPrinted = FALSE

\* WithTx: tx, err := pool.Begin(ctx); on error WithTx returns it and the
\* demo logs "Partitioning setup error" and returns
PartBegin ==
    /\ tpc = "begin"
    /\ \E ok \in BOOLEAN :
         IF ok THEN /\ tpc' = "parent"
                    /\ partsTx' = parts
                    /\ UNCHANGED <<stmtFailed, errLogged>>
               ELSE /\ tpc' = "done"
                    /\ stmtFailed' = TRUE
                    /\ errLogged' = TRUE
                    /\ UNCHANGED partsTx
    /\ UNCHANGED <<partRuns, partI, partAborted, parts, telemetryRows,
                   statsPrinted>>

\* CREATE TABLE IF NOT EXISTS telemetry_data ...; if err != nil { return err }:
\* WithTx rolls back and returns the error, which the demo logs
CreateParent ==
    /\ tpc = "parent"
    /\ \E ok \in BOOLEAN :
         IF ok THEN /\ tpc' = "partitions"
                    /\ partI' = 0
                    /\ UNCHANGED <<stmtFailed, errLogged, partsTx>>
               ELSE /\ tpc' = "done"
                    /\ stmtFailed' = TRUE
                    /\ errLogged' = TRUE
                    /\ partsTx' = parts
                    /\ UNCHANGED partI
    /\ UNCHANGED <<partRuns, partAborted, parts, telemetryRows, statsPrinted>>

\* one iteration of the loop: CREATE TABLE IF NOT EXISTS <month> PARTITION
\* OF telemetry_data; if err != nil { continue }.  A statement that fails
\* aborts the transaction, and every later statement fails in it.
CreatePartition ==
    /\ tpc = "partitions"
    /\ partI < NumPartitions
    /\ \E ok \in BOOLEAN :
         IF ok /\ ~partAborted
            THEN /\ partsTx' = partsTx \cup {0 - partI}
                 /\ UNCHANGED <<partAborted, stmtFailed>>
            ELSE /\ partAborted' = TRUE
                 /\ stmtFailed' = TRUE
                 /\ UNCHANGED partsTx
    /\ partI' = partI + 1
    /\ tpc' = IF partI + 1 < NumPartitions THEN "partitions" ELSE "commit"
    /\ UNCHANGED <<partRuns, parts, telemetryRows, errLogged, statsPrinted>>

\* fn returned nil: WithTx calls tx.Commit.  On an aborted transaction the
\* server answers COMMIT with ROLLBACK and pgx returns ErrTxCommitRollback;
\* WithTx returns "commit failed: ..." and the demo logs it and returns.
PartCommit ==
    /\ tpc = "commit"
    /\ \E ok \in BOOLEAN :
         IF ok /\ ~partAborted
            THEN /\ parts' = partsTx
                 /\ tpc' = "batch"
                 /\ UNCHANGED <<stmtFailed, errLogged, partsTx>>
            ELSE /\ partsTx' = parts
                 /\ tpc' = "done"
                 /\ stmtFailed' = TRUE
                 /\ errLogged' = TRUE
                 /\ UNCHANGED parts
    /\ UNCHANGED <<partRuns, partI, partAborted, telemetryRows, statsPrinted>>

\* the first queued row the server rejects: the first whose month has no
\* partition, or Len(RowMonths) + 1 when every row finds its partition
FirstRejected ==
    IF \E k \in 1..Len(RowMonths) : RowMonths[k] \notin parts
        THEN CHOOSE k \in 1..Len(RowMonths) :
                 /\ RowMonths[k] \notin parts
                 /\ \A j \in 1..(k - 1) : RowMonths[j] \in parts
        ELSE Len(RowMonths) + 1

\* br := pool.SendBatch(ctx, batch); br.Close(): the rows go to the server
\* in one implicit transaction, which inserts all of them or none.  The
\* value br.Close() returns is dropped.
InsertTelemetry ==
    /\ tpc = "batch"
    /\ IF FirstRejected > Len(RowMonths)
          THEN /\ telemetryRows' = telemetryRows + Len(RowMonths)
               /\ UNCHANGED stmtFailed
          ELSE /\ stmtFailed' = TRUE
               /\ UNCHANGED telemetryRows
    /\ tpc' = "query"
    /\ UNCHANGED <<partRuns, partI, partAborted, partsTx, parts, errLogged,
                   statsPrinted>>

\* rows, err := pool.Query(...); if err == nil { ... }; the statistics are
\* printed whether the query failed or not
QueryPartitionInfo ==
    /\ tpc = "query"
    /\ \E ok \in BOOLEAN :
         stmtFailed' = (stmtFailed \/ ~ok)
    /\ statsPrinted' = TRUE
    /\ tpc' = "cleanup"
    /\ UNCHANGED <<partRuns, partI, partAborted, partsTx, parts,
                   telemetryRows, errLogged>>

\* pool.Exec(ctx, "DROP TABLE IF EXISTS telemetry_data CASCADE"), its
\* result dropped
CleanUp ==
    /\ tpc = "cleanup"
    /\ \E ok \in BOOLEAN :
         IF ok THEN /\ parts' = {}
                    /\ telemetryRows' = 0
                    /\ UNCHANGED stmtFailed
               ELSE /\ stmtFailed' = TRUE
                    /\ UNCHANGED <<parts, telemetryRows>>
    /\ tpc' = "done"
    /\ UNCHANGED <<partRuns, partI, partAborted, partsTx, errLogged,
                   statsPrinted>>

\* the demo is run again on the database the last run left
PartAgain ==
    /\ tpc = "done"
    /\ partRuns < MaxPartRuns
    /\ partRuns' = partRuns + 1
    /\ tpc' = "begin"
    /\ partI' = 0
    /\ partAborted' = FALSE
    /\ partsTx' = parts
    /\ stmtFailed' = FALSE
    /\ errLogged' = FALSE
    /\ statsPrinted' = FALSE
    /\ UNCHANGED <<parts, telemetryRows>>

PartFrame ==
    UNCHANGED <<txVars, poolVars, callerVars, lockVars, notifyVars,
                mergeVars, bulkVars, batchVars, seedVars,
                pipeVars,
                relVars,
                nestVars,
                chunkVars,
                migVars>>

PartNext ==
    \/ PartBegin /\ PartFrame
    \/ CreateParent /\ PartFrame
    \/ CreatePartition /\ PartFrame
    \/ PartCommit /\ PartFrame
    \/ InsertTelemetry /\ PartFrame
    \/ QueryPartitionInfo /\ PartFrame
    \/ CleanUp /\ PartFrame
    \/ PartAgain /\ PartFrame


\* ---------------------------------------------------------------------
\* batchWithPipeline (prompt-2-timescale.md:1123-1181) on the pool of
\* NewPool.  A pipeline locks its connection (the connection is busy)
\* from the moment it is started until pipeline.Close(); pgxpool's
\* Release destroys a connection that is closed or busy and puts any
\* other back on the free list.
\* ---------------------------------------------------------------------
PipeHandle == 1      \* conn, err := pool.Acquire(ctx)
NumPipelined == 2    \* statements queued in the pipeline (the code queues 100)
MaxPipeRuns == 3     \* runs of the function, one after the other

PipeInit ==
    /\ qpc = "acquire"
    /\ pipeRuns = 1
    /\ pipeQueued = 0
    /\ pipeBusy = 0
    /\ tainted = [c \in Conns |-> 0]
    /\ syncErrLogged = FALSE

PipeConn == res[PipeHandle]

\* conn, err := pool.Acquire(ctx)
PipeAcquireIdle ==
    /\ qpc = "acquire"
    /\ AcquireIdle(PipeHandle)
    /\ qpc' = "start"
    /\ UNCHANGED <<pipeRuns, pipeQueued, pipeBusy, tainted, syncErrLogged>>

PipeAcquireNew ==
    /\ qpc = "acquire"
    /\ AcquireNew(PipeHandle)
    /\ qpc' = "dial"
    /\ UNCHANGED <<pipeRuns, pipeQueued, pipeBusy, tainted, syncErrLogged>>

PipeDialDone ==
    /\ qpc = "dial"
    /\ ConstructDone(PipeHandle)
    /\ qpc' = "start"
    /\ UNCHANGED <<pipeRuns, pipeQueued, pipeBusy, tainted, syncErrLogged>>

\* if err != nil { log.Printf("Acquire error: %v", err); return }
PipeDialFail ==
    /\ qpc = "dial"
    /\ ConstructFail(PipeHandle)
    /\ qpc' = "done"
    /\ UNCHANGED <<pipeRuns, pipeQueued, pipeBusy, tainted, syncErrLogged>>

\* pipeline := conn.Conn().Pipeline()
StartPipeline ==
    /\ qpc = "start"
    /\ pipeBusy' = PipeConn
    /\ pipeQueued' = 0
    /\ qpc' = "queue"
    /\ UNCHANGED <<poolVars, pipeRuns, tainted, syncErrLogged>>

\* results[i] = pipeline.Query(ctx, UPDATE assets ...)
PipelineQuery ==
    /\ qpc = "queue"
    /\ pipeQueued < NumPipelined
    /\ pipeQueued' = pipeQueued + 1
    /\ qpc' = IF pipeQueued + 1 < NumPipelined THEN "queue" ELSE "sync"
    /\ UNCHANGED <<poolVars, pipeRuns, pipeBusy, tainted, syncErrLogged>>

\* the link to the server is lost while the function holds the connection
PipeConnLost ==
    /\ qpc \in {"queue", "sync", "results", "close"}
    /\ ~broken[PipeConn]
    /\ broken' = [broken EXCEPT ![PipeConn] = TRUE]
    /\ tainted' = [tainted EXCEPT ![PipeConn] = pipeRuns]
    /\ UNCHANGED <<poolConn, res, qpc, pipeRuns, pipeQueued, pipeBusy,
                   syncErrLogged>>

\* err = pipeline.Sync(ctx); if err != nil { log.Printf(...); return }:
\* on an error the function returns with the pipeline still open, with
\* the connection closed or not
PipelineSync ==
    /\ qpc = "sync"
    /\ \E ok \in IF broken[PipeConn] THEN {FALSE} ELSE BOOLEAN :
         IF ok THEN /\ qpc' = "results"
                    /\ UNCHANGED <<broken, tainted, syncErrLogged>>
               ELSE /\ qpc' = "release"
                    /\ syncErrLogged' = TRUE
                    /\ tainted' = [tainted EXCEPT ![PipeConn] = pipeRuns]
                    /\ \E closed \in BOOLEAN :
                         broken' = [broken EXCEPT
                                       ![PipeConn] = broken[PipeConn] \/ closed]
    /\ UNCHANGED <<poolConn, res, pipeRuns, pipeQueued, pipeBusy>>

\* for _, res := range results { tag, err := res.Close(); ... }
ResultsClose ==
    /\ qpc = "results"
    /\ qpc' = "close"
    /\ UNCHANGED <<poolVars, pipeRuns, pipeQueued, pipeBusy, tainted,
                   syncErrLogged>>

\* err = pipeline.Close(): the connection is unlocked; an error that is
\* not a server's answer closes the connection
PipelineClose ==
    /\ qpc = "close"
    /\ pipeBusy' = 0
    /\ \E ok \in IF broken[PipeConn] THEN {FALSE} ELSE BOOLEAN :
         IF ok THEN UNCHANGED <<broken, tainted>>
               ELSE /\ broken' = [broken EXCEPT ![PipeConn] = TRUE]
                    /\ tainted' = [tainted EXCEPT ![PipeConn] = pipeRuns]
    /\ qpc' = "release"
    /\ UNCHANGED <<poolConn, res, pipeRuns, pipeQueued, syncErrLogged>>

\* defer conn.Release()
PipeReleaseIgnoresBusy ==
    /\ qpc = "release"
    /\ Release(PipeHandle)
    /\ pipeBusy' = 0
    /\ qpc' = "done"
    /\ UNCHANGED <<pipeRuns, pipeQueued, tainted, syncErrLogged>>

PipeRelease ==
    /\ qpc = "release"
    /\ IF pipeBusy = PipeConn
         THEN /\ poolConn' = [poolConn EXCEPT ![PipeConn] = "destroyed"]
              /\ res' = [res EXCEPT ![PipeHandle] = 0]
              /\ UNCHANGED broken
         ELSE Release(PipeHandle)
    /\ pipeBusy' = 0
    /\ qpc' = "done"
    /\ UNCHANGED <<pipeRuns, pipeQueued, tainted, syncErrLogged>>

\* the function is called again on the same pool
PipeAgain ==
    /\ qpc = "done"
    /\ pipeRuns < MaxPipeRuns
    /\ pipeRuns' = pipeRuns + 1
    /\ qpc' = "acquire"
    /\ pipeQueued' = 0
    /\ syncErrLogged' = FALSE
    /\ UNCHANGED <<poolVars, pipeBusy, tainted>>

PipeFrame ==
    UNCHANGED <<txVars, callerVars, lockVars, notifyVars,
                mergeVars, bulkVars, batchVars, seedVars, partVars,
                relVars,
                nestVars,
                chunkVars,
                migVars>>

PipeNext ==
    \/ PipeAcquireIdle /\ PipeFrame
    \/ PipeAcquireNew /\ PipeFrame
    \/ PipeDialDone /\ PipeFrame
    \/ PipeDialFail /\ PipeFrame
    \/ StartPipeline /\ PipeFrame
    \/ PipelineQuery /\ PipeFrame
    \/ PipeConnLost /\ PipeFrame
    \/ PipelineSync /\ PipeFrame
    \/ ResultsClose /\ PipeFrame
    \/ PipelineClose /\ PipeFrame
    \/ PipeRelease /\ PipeFrame
    \/ PipeAgain /\ PipeFrame


\* ---------------------------------------------------------------------
\* Tables sites and assets (migrations/001_initial_schema.up.sql:6-34)
\* under the statements of queries/sites.sql and queries/assets.sql that
\* insert or delete rows.  Ids are drawn by uuid_generate_v4(): every new
\* row gets an id no row had before.  No statement of the repository
\* updates assets.site_id.
\* ---------------------------------------------------------------------
MaxSiteIds == 3      \* sites ever created
MaxAssetIds == 3     \* assets ever created
NumSerials == 2      \* distinct serial numbers offered

SiteUuids == 1..MaxSiteIds
AssetUuids == 1..MaxAssetIds
Serials == 1..NumSerials

RelInit ==
    /\ dbSites = {}
    /\ dbAssets = {}
    /\ nextSiteId = 1
    /\ nextAssetId = 1
    /\ lastOp = None
    /\ lastRejected = FALSE
    /\ cascaded = 0

\* INSERT INTO sites (...) VALUES (...) RETURNING *
CreateSite ==
    /\ nextSiteId <= MaxSiteIds
    /\ dbSites' = dbSites \cup {nextSiteId}
    /\ nextSiteId' = nextSiteId + 1
    /\ lastOp' = "CreateSite"
    /\ lastRejected' = FALSE
    /\ cascaded' = 0
    /\ UNCHANGED <<dbAssets, nextAssetId>>

\* site_id UUID NOT NULL REFERENCES sites(id); serial_number ... UNIQUE
AssetAccepted(s, sn) ==
    /\ s \in dbSites
    /\ \A a \in dbAssets : a.serial_number # sn

\* INSERT INTO assets (site_id, ..., serial_number, ...) VALUES (...) RETURNING *
CreateAsset(s, sn) ==
    /\ nextAssetId <= MaxAssetIds
    /\ IF AssetAccepted(s, sn)
         THEN /\ dbAssets' = dbAssets \cup
                    {[id |-> nextAssetId, site_id |-> s, serial_number |-> sn]}
              /\ nextAssetId' = nextAssetId + 1
              /\ lastRejected' = FALSE
         ELSE /\ UNCHANGED <<dbAssets, nextAssetId>>
              /\ lastRejected' = TRUE
    /\ lastOp' = "CreateAsset"
    /\ cascaded' = 0
    /\ UNCHANGED <<dbSites, nextSiteId>>

\* DELETE FROM assets WHERE id = $1
DeleteAsset(id) ==
    /\ dbAssets' = {a \in dbAssets : a.id # id}
    /\ lastOp' = "DeleteAsset"
    /\ lastRejected' = FALSE
    /\ cascaded' = 0
    /\ UNCHANGED <<dbSites, nextSiteId, nextAssetId>>

\* the assets a DELETE of site s takes with it: ON DELETE CASCADE
CascadeMissing(s) == {}

Cascade(s) == {a \in dbAssets : a.site_id = s}

\* DELETE FROM sites WHERE id = $1
DeleteSite(s) ==
    /\ dbSites' = dbSites \ {s}
    /\ dbAssets' = IF s \in dbSites THEN dbAssets \ Cascade(s) ELSE dbAssets
    /\ cascaded' = IF s \in dbSites THEN Cardinality(Cascade(s)) ELSE 0
    /\ lastOp' = "DeleteSite"
    /\ lastRejected' = FALSE
    /\ UNCHANGED <<nextSiteId, nextAssetId>>


RelFrame ==
    UNCHANGED <<txVars, poolVars, callerVars, lockVars, notifyVars,
                mergeVars, bulkVars, batchVars, seedVars, partVars,
                pipeVars,
                nestVars,
                chunkVars,
                migVars>>

RelNext ==
    \/ CreateSite /\ RelFrame
    \/ (\E s \in SiteUuids, sn \in Serials : CreateAsset(s, sn)) /\ RelFrame
    \/ (\E id \in AssetUuids : DeleteAsset(id)) /\ RelFrame
    \/ (\E s \in SiteUuids : DeleteSite(s)) /\ RelFrame


\* ---------------------------------------------------------------------
\* WithTx (connection.go:117-142) called from inside the fn of another
\* WithTx, and a statement issued through a tx handle that fn kept after
\* its WithTx returned.  Level 1 is the outer call, level 2 the call made
\* by the fn of level 1.  Every pool.Begin leases a connection of its own
\* and begins a transaction on it; pgx answers ErrTxClosed to a statement
\* on a transaction that was committed or rolled back.
\* ---------------------------------------------------------------------
MaxDepth == 2        \* nesting depth of WithTx calls
MaxNestStmts == 2    \* statements one fn issues through its tx
MaxNestCalls == 3    \* WithTx calls made in all

Levels == 1..MaxDepth

NestInit ==
    /\ wpc = [l \in Levels |-> "idle"]
    /\ wpending = [l \in Levels |-> 0]
    /\ wret = [l \in Levels |-> None]
    /\ nestCommitted = 0
    /\ lateExecs = 0
    /\ lateRejected = 0
    /\ committedAtReturn = 0
    /\ nestCalls = 0

OpenTxs == {l \in Levels : wpc[l] \in {"fn", "commit", "rollback"}}

\* level l may call WithTx: the outer level when it is not running, a
\* deeper level from inside the fn of the level above
MayCall(l) ==
    /\ wpc[l] = "idle"
    /\ l > 1 => wpc[l - 1] = "fn"

\* tx, err := pool.Begin(ctx); if err != nil { return fmt.Errorf("begin tx: %w", err) }
NestBegin(l) ==
    /\ MayCall(l)
    /\ nestCalls < MaxNestCalls
    /\ nestCalls' = nestCalls + 1
    /\ Cardinality(OpenTxs) < MaxConns
    /\ \E ok \in BOOLEAN :
         IF ok THEN /\ wpc' = [wpc EXCEPT ![l] = "fn"]
                    /\ wret' = [wret EXCEPT ![l] = None]
               ELSE /\ wpc' = [wpc EXCEPT ![l] = "returned"]
                    /\ wret' = [wret EXCEPT ![l] = "err"]
    /\ wpending' = [wpending EXCEPT ![l] = 0]
    /\ UNCHANGED <<nestCommitted, lateExecs, lateRejected, committedAtReturn>>

\* fn of level l is running and not inside a WithTx call of its own
InFn(l) ==
    /\ wpc[l] = "fn"
    /\ l < MaxDepth => wpc[l + 1] \in {"idle", "returned"}

\* fn(tx): a statement through the handle of level l
NestExec(l) ==
    /\ InFn(l)
    /\ wpending[l] < MaxNestStmts
    /\ wpending' = [wpending EXCEPT ![l] = @ + 1]
    /\ UNCHANGED <<wpc, wret, nestCommitted, lateExecs, lateRejected,
                   committedAtReturn>>
    /\ UNCHANGED nestCalls

\* if err := fn(tx); err != nil { tx.Rollback ...; return err }
NestFnReturn(l) ==
    /\ InFn(l)
    /\ \E r \in {"commit", "rollback"} : wpc' = [wpc EXCEPT ![l] = r]
    /\ UNCHANGED <<wpending, wret, nestCommitted, lateExecs, lateRejected,
                   committedAtReturn>>
    /\ UNCHANGED nestCalls

NestRollback(l) ==
    /\ wpc[l] = "rollback"
    /\ wpc' = [wpc EXCEPT ![l] = "returned"]
    /\ wret' = [wret EXCEPT ![l] = "err"]
    /\ wpending' = [wpending EXCEPT ![l] = 0]
    /\ committedAtReturn' = IF l = 1 THEN nestCommitted ELSE committedAtReturn
    /\ UNCHANGED <<nestCommitted, lateExecs, lateRejected>>
    /\ UNCHANGED nestCalls

\* if err := tx.Commit(ctx); err != nil { return fmt.Errorf("commit failed: %w", err) }
NestCommit(l) ==
    /\ wpc[l] = "commit"
    /\ wpc' = [wpc EXCEPT ![l] = "returned"]
    /\ \E ok \in BOOLEAN :
         /\ wret' = [wret EXCEPT ![l] = IF ok THEN "nil" ELSE "err"]
         /\ nestCommitted' = IF ok THEN nestCommitted + wpending[l]
                                   ELSE nestCommitted
         /\ committedAtReturn' =
                IF l = 1 THEN (IF ok THEN nestCommitted + wpending[l]
                                     ELSE nestCommitted)
                         ELSE committedAtReturn
    /\ wpending' = [wpending EXCEPT ![l] = 0]
    /\ UNCHANGED <<lateExecs, lateRejected>>
    /\ UNCHANGED nestCalls

\* a statement through the handle of the outer call after that call has
\* returned: the transaction is closed, pgx returns ErrTxClosed
LateExec ==
    /\ wpc[1] = "returned"
    /\ wret[1] \in {"nil", "err"}
    /\ lateExecs < MaxNestStmts
    /\ lateExecs' = lateExecs + 1
    /\ lateRejected' = lateRejected + 1
    /\ UNCHANGED <<wpc, wpending, wret, nestCommitted, committedAtReturn>>
    /\ UNCHANGED nestCalls

\* the inner call has returned to the fn of the level above, which may
\* call WithTx again
NestReturnToFn(l) ==
    /\ l > 1
    /\ wpc[l] = "returned"
    /\ wpc[l - 1] = "fn"
    /\ wpc' = [wpc EXCEPT ![l] = "idle"]
    /\ UNCHANGED <<wpending, wret, nestCommitted, lateExecs, lateRejected,
                   committedAtReturn>>
    /\ UNCHANGED nestCalls


NestFrame ==
    UNCHANGED <<txVars, poolVars, callerVars, lockVars, notifyVars,
                mergeVars, bulkVars, batchVars, seedVars, partVars,
                pipeVars, relVars,
                chunkVars,
                migVars>>

NestNext ==
    \/ (\E l \in Levels : NestBegin(l)) /\ NestFrame
    \/ (\E l \in Levels : NestExec(l)) /\ NestFrame
    \/ (\E l \in Levels : NestFnReturn(l)) /\ NestFrame
    \/ (\E l \in Levels : NestRollback(l)) /\ NestFrame
    \/ (\E l \in Levels : NestCommit(l)) /\ NestFrame
    \/ LateExec /\ NestFrame
    \/ (\E l \in Levels : NestReturnToFn(l)) /\ NestFrame


\* ---------------------------------------------------------------------
\* The batching loops of seedSites (part_001:232-276) and seedAssets
\* (part_001:306-356) for any count: rows are numbered 1..count, a batch
\* is sent when batch.Len() >= SeedBatchSize and once more after the loop
\* when it is not empty.
\* ---------------------------------------------------------------------
MaxCount == 6        \* largest count handed to a seed function

Rows == 1..MaxCount

RECURSIVE SumSeq(_)
SumSeq(q) == IF q = <<>> THEN 0 ELSE Head(q) + SumSeq(Tail(q))

ChunkInit ==
    /\ chunkpc = "start"
    /\ seedFn = None
    /\ count = 0
    /\ loopI = 0
    /\ curBatch = 0
    /\ sentBatches = <<>>
    /\ queuedTimes = [r \in Rows |-> 0]
    /\ seedRet = None

\* seedSites(ctx, pool, count) or seedAssets(ctx, pool, count) is called
SeedCall ==
    /\ chunkpc = "start"
    /\ \E f \in {"seedSites", "seedAssets"}, n \in 0..MaxCount :
         /\ seedFn' = f
         /\ count' = n
    /\ chunkpc' = "loop"
    /\ UNCHANGED <<loopI, curBatch, sentBatches, queuedTimes, seedRet>>

\* br := pool.SendBatch(ctx, batch); if err := br.Close(); err != nil { return ... }
\* one iteration of for i := 0; i < count; i++
SeedLoop ==
    /\ chunkpc = "loop"
    /\ loopI < count
    /\ \E m \in Manufacturers :
         IF seedFn = "seedAssets" /\ ManufacturerLen[m] < PrefixLen
           THEN /\ chunkpc' = "done"
                /\ seedRet' = "panic"
                /\ UNCHANGED <<loopI, curBatch, sentBatches, queuedTimes>>
           ELSE /\ queuedTimes' = [queuedTimes EXCEPT ![loopI + 1] = @ + 1]
                /\ loopI' = loopI + 1
                /\ IF curBatch + 1 >= SeedBatchSize
                     THEN /\ sentBatches' = Append(sentBatches, curBatch + 1)
                          /\ \E ok \in BOOLEAN :
                               IF ok THEN /\ curBatch' = 0
                                          /\ UNCHANGED <<chunkpc, seedRet>>
                                     ELSE /\ chunkpc' = "done"
                                          /\ seedRet' = "err"
                                          /\ UNCHANGED curBatch
                     ELSE /\ curBatch' = curBatch + 1
                          /\ UNCHANGED <<chunkpc, seedRet, sentBatches>>
    /\ UNCHANGED <<seedFn, count>>

\* if batch.Len() > 0 { br := pool.SendBatch(ctx, batch); ... }; return nil
SeedFinalBatch ==
    /\ chunkpc = "loop"
    /\ loopI = count
    /\ IF curBatch > 0
         THEN /\ sentBatches' = Append(sentBatches, curBatch)
              /\ \E ok \in BOOLEAN : seedRet' = IF ok THEN "nil" ELSE "err"
         ELSE /\ seedRet' = "nil"
              /\ UNCHANGED sentBatches
    /\ chunkpc' = "done"
    /\ UNCHANGED <<seedFn, count, loopI, curBatch, queuedTimes>>

ChunkFrame ==
    UNCHANGED <<txVars, poolVars, callerVars, lockVars, notifyVars,
                mergeVars, bulkVars, batchVars, seedVars, partVars,
                pipeVars, relVars, nestVars,
                migVars>>

ChunkNext ==
    \/ SeedCall /\ ChunkFrame
    \/ SeedLoop /\ ChunkFrame
    \/ SeedFinalBatch /\ ChunkFrame


\* ---------------------------------------------------------------------
\* migrations/001_initial_schema.up.sql and .down.sql run by the migrate
\* program (part_001:454-526) through golang-migrate.  A migration file
\* is sent as one query: the server runs its statements in order in one
\* implicit transaction.  golang-migrate marks the version dirty before
\* it runs a file and clean after the file succeeded.
\* ---------------------------------------------------------------------
MaxMigrations == 4   \* runs of the migrate program, one after the other

Extensions == {"uuid-ossp", "pg_stat_statements"}
SiteIndexes == {"idx_sites_country", "idx_sites_coordinates", "idx_sites_metadata"}
AssetIndexes == {"idx_assets_site_id", "idx_assets_mac", "idx_assets_status",
                 "idx_assets_config", "idx_assets_telemetry",
                 "idx_assets_last_seen"}
Triggers == {"update_sites_updated_at", "update_assets_updated_at"}

\* the table an index or a trigger belongs to and is dropped with
Owner(x) ==
    CASE x \in SiteIndexes \cup {"update_sites_updated_at"} -> "sites"
      [] x \in AssetIndexes \cup {"update_assets_updated_at"} -> "assets"
      [] OTHER -> None

\* what x refers to: it must exist when x is created, and cannot be
\* dropped while x exists unless x is dropped with it
Requires(x) ==
    CASE x = "sites" -> {"uuid-ossp"}
      [] x = "assets" -> {"uuid-ossp", "sites"}
      [] x \in Triggers -> {Owner(x), "update_updated_at"}
      [] x \in SiteIndexes \cup AssetIndexes -> {Owner(x)}
      [] OTHER -> {}

\* the statements of 001_initial_schema.up.sql, in order
UpStmts ==
    << [obj |-> "uuid-ossp", guard |-> "IF NOT EXISTS"],
       [obj |-> "pg_stat_statements", guard |-> "IF NOT EXISTS"],
       [obj |-> "sites", guard |-> None],
       [obj |-> "assets", guard |-> None],
       [obj |-> "idx_sites_country", guard |-> None],
       [obj |-> "idx_sites_coordinates", guard |-> None],
       [obj |-> "idx_sites_metadata", guard |-> None],
       [obj |-> "idx_assets_site_id", guard |-> None],
       [obj |-> "idx_assets_mac", guard |-> None],
       [obj |-> "idx_assets_status", guard |-> None],
       [obj |-> "idx_assets_config", guard |-> None],
       [obj |-> "idx_assets_telemetry", guard |-> None],
       [obj |-> "idx_assets_last_seen", guard |-> None],
       [obj |-> "update_updated_at", guard |-> "OR REPLACE"],
       [obj |-> "update_sites_updated_at", guard |-> None],
       [obj |-> "update_assets_updated_at", guard |-> None] >>

SchemaObjects == {UpStmts[k].obj : k \in 1..Len(UpStmts)}

\* the objects of the DROP ... IF EXISTS statements of
\* 001_initial_schema.down.sql, in order
DownStmtsSitesBeforeAssets ==
    << "update_assets_updated_at", "update_sites_updated_at",
       "update_updated_at",
       "idx_assets_last_seen", "idx_assets_telemetry", "idx_assets_config",
       "idx_assets_status", "idx_assets_mac", "idx_assets_site_id",
       "idx_sites_metadata", "idx_sites_coordinates", "idx_sites_country",
       "sites", "assets",
       "pg_stat_statements", "uuid-ossp" >>

DownStmts ==
    << "update_assets_updated_at", "update_sites_updated_at",
       "update_updated_at",
       "idx_assets_last_seen", "idx_assets_telemetry", "idx_assets_config",
       "idx_assets_status", "idx_assets_mac", "idx_assets_site_id",
       "idx_sites_metadata", "idx_sites_coordinates", "idx_sites_country",
       "assets", "sites",
       "pg_stat_statements", "uuid-ossp" >>

\* CREATE: [ok, schema after]
Create(sch, st) ==
    IF st.obj \in sch
      THEN [ok |-> st.guard # None, schema |-> sch]
      ELSE IF Requires(st.obj) \subseteq sch
             THEN [ok |-> TRUE, schema |-> sch \cup {st.obj}]
             ELSE [ok |-> FALSE, schema |-> sch]

\* what goes when o is dropped: o and what it owns
DropSet(sch, o) == {o} \cup {x \in sch : Owner(x) = o}

\* DROP ... IF EXISTS without CASCADE: [ok, schema after]
Drop(sch, o) ==
    IF o \notin sch
      THEN [ok |-> TRUE, schema |-> sch]
      ELSE IF \E x \in sch \ DropSet(sch, o) :
                  Requires(x) \cap DropSet(sch, o) # {}
             THEN [ok |-> FALSE, schema |-> sch]
             ELSE [ok |-> TRUE, schema |-> sch \ DropSet(sch, o)]

MigInit ==
    /\ migpc = "idle"
    /\ migrations = 0
    /\ stmtI = 0
    /\ schema = {}
    /\ schemaTx = {}
    /\ version = 0
    /\ dirty = FALSE
    /\ stmtErrors = 0
    /\ forced = FALSE
    /\ upsDone = 0

\* migrate up / migrate down: m.Up() or m.Down(); ErrDirty on a dirty
\* version, ErrNoChange when there is nothing to run
MigrateStart ==
    /\ migpc = "idle"
    /\ migrations < MaxMigrations
    /\ migrations' = migrations + 1
    /\ \E action \in {"up", "down"} :
         IF dirty \/ (action = "up" /\ version = 1)
                  \/ (action = "down" /\ version = 0)
           THEN UNCHANGED <<migpc, dirty, version>>
           ELSE /\ migpc' = action
                /\ dirty' = TRUE
                /\ version' = IF action = "up" THEN 1 ELSE 0
    /\ stmtI' = 0
    /\ schemaTx' = schema
    /\ UNCHANGED <<schema, stmtErrors, forced, upsDone>>

\* the file failed: the implicit transaction is rolled back, the version
\* stays dirty and main ends with log.Fatal("Migration failed:", err)
FileFailed ==
    /\ migpc' = "idle"
    /\ schemaTx' = schema
    /\ stmtI' = 0
    /\ UNCHANGED <<schema, version, dirty, upsDone>>

\* the file succeeded: its transaction commits, the version is clean
FileDone ==
    /\ migpc' = "idle"
    /\ schema' = schemaTx'
    /\ dirty' = FALSE
    /\ stmtI' = 0
    /\ UNCHANGED version

\* the next statement of the up file
UpStmt ==
    /\ migpc = "up"
    /\ \/ LET r == Create(schemaTx, UpStmts[stmtI + 1]) IN
            IF r.ok
              THEN /\ schemaTx' = r.schema
                   /\ UNCHANGED <<stmtErrors, forced, migrations>>
                   /\ IF stmtI + 1 = Len(UpStmts)
                        THEN /\ FileDone
                             /\ upsDone' = upsDone + 1
                        ELSE /\ stmtI' = stmtI + 1
                             /\ UNCHANGED <<migpc, schema, version, dirty,
                                            upsDone>>
              ELSE /\ FileFailed
                   /\ stmtErrors' = stmtErrors + 1
                   /\ UNCHANGED <<forced, migrations>>
       \/ \* the connection is lost
          /\ FileFailed
          /\ UNCHANGED <<stmtErrors, forced, migrations>>

\* the next statement of the down file
DownStmt ==
    /\ migpc = "down"
    /\ \/ LET r == Drop(schemaTx, DownStmts[stmtI + 1]) IN
            IF r.ok
              THEN /\ schemaTx' = r.schema
                   /\ UNCHANGED <<stmtErrors, forced, migrations, upsDone>>
                   /\ IF stmtI + 1 = Len(DownStmts)
                        THEN FileDone
                        ELSE /\ stmtI' = stmtI + 1
                             /\ UNCHANGED <<migpc, schema, version, dirty>>
              ELSE /\ FileFailed
                   /\ stmtErrors' = stmtErrors + 1
                   /\ UNCHANGED <<forced, migrations>>
       \/ \* the connection is lost
          /\ FileFailed
          /\ UNCHANGED <<stmtErrors, forced, migrations>>

\* migrate -force v force: m.Force(v) sets the version, clean
Force ==
    /\ migpc = "idle"
    /\ dirty
    /\ migrations < MaxMigrations
    /\ migrations' = migrations + 1
    /\ \E v \in {0, 1} : version' = v
    /\ dirty' = FALSE
    /\ forced' = TRUE
    /\ UNCHANGED <<migpc, stmtI, schema, schemaTx, stmtErrors, upsDone>>

MigFrame ==
    UNCHANGED <<txVars, poolVars, callerVars, lockVars, notifyVars,
                mergeVars, bulkVars, batchVars, seedVars, partVars,
                pipeVars, relVars, nestVars, chunkVars>>

MigNext ==
    \/ MigrateStart /\ MigFrame
    \/ UpStmt /\ MigFrame
    \/ DownStmt /\ MigFrame
    \/ Force /\ MigFrame

\* ---------------------------------------------------------------------
\* Specifications
\* ---------------------------------------------------------------------
TxFrame ==
    UNCHANGED <<poolVars, callerVars, lockVars, notifyVars, mergeVars,
                bulkVars, batchVars, seedVars,
                partVars,
                pipeVars,
                relVars,
                nestVars,
                chunkVars,
                migVars>>

TxNext ==
    \/ Begin /\ TxFrame
    \/ FnExec /\ TxFrame
    \/ FnReturn /\ TxFrame
    \/ RollbackOnError /\ TxFrame
    \/ Commit /\ TxFrame
    \/ DeferredRecover /\ TxFrame

Init == TxInit /\ PoolInit /\ CallerInit /\ LockInit /\ NotifyInit /\ MergeInit /\ BulkInit /\ BatchInit /\ SeedInit /\ PartInit /\ PipeInit /\ RelInit /\ NestInit /\ ChunkInit /\ MigInit

\* the demos pass context.Background(): no acquire has a deadline
InitBackground == TxInit /\ PoolInit /\ CallerInit /\ LockInit /\ NotifyInit /\ MergeInit /\ BulkInit /\ BatchInit /\ SeedInit /\ PartInit /\ PipeInit /\ RelInit /\ NestInit /\ ChunkInit /\ MigInit /\ deadline = FALSE

SpecTx == InitBackground /\ [][TxNext]_vars

SpecPool == Init /\ [][PoolNext]_vars

FairSpecPool ==
    SpecPool /\ \A w \in Callers : WF_vars(Caller(w) /\ PoolFrame)

SpecLocks == InitBackground /\ [][LockNext]_vars

SpecNotify == InitBackground /\ [][NotifyNext]_vars

SpecMerge == InitBackground /\ [][MergeNext]_vars

SpecBulk == InitBackground /\ [][BulkNext]_vars

SpecBatch == InitBackground /\ [][BatchNext]_vars

SpecSeed == InitBackground /\ [][SeedNext]_vars

SpecPart == InitBackground /\ [][PartNext]_vars

SpecPipe == InitBackground /\ [][PipeNext]_vars

SpecRel == InitBackground /\ [][RelNext]_vars

SpecNest == InitBackground /\ [][NestNext]_vars

SpecChunk == InitBackground /\ [][ChunkNext]_vars

SpecMig == InitBackground /\ [][MigNext]_vars

\* every goroutine of listenNotifyDemo that can take a step is scheduled;
\* dialling ends one way or the other; losing a connection is not forced
FairSpecNotify ==
    /\ SpecNotify
    /\ WF_vars((ExecAcquireIdle \/ ExecAcquireNew) /\ NotifyFrame)
    /\ WF_vars((ExecDialDone \/ ExecDialFail) /\ NotifyFrame)
    /\ WF_vars(ExecRun /\ NotifyFrame)
    /\ WF_vars((NAcquireIdle \/ NAcquireNew) /\ NotifyFrame)
    /\ WF_vars((NDialDone \/ NDialFail) /\ NotifyFrame)
    /\ WF_vars(Listen /\ NotifyFrame)
    /\ WF_vars(NReturn /\ NotifyFrame)
    /\ WF_vars(ConnCall /\ NotifyFrame)
    /\ WF_vars(WaitForNotification /\ NotifyFrame)
    /\ WF_vars(Forward /\ NotifyFrame)
    /\ WF_vars(CloseNotifyChan /\ NotifyFrame)
    /\ WF_vars(RangeNotifyChan /\ NotifyFrame)

FairSpecLocks ==
    /\ SpecLocks
    /\ \A w \in Workers : WF_vars(Worker(w) /\ LockFrame)
    /\ WF_vars((\E c \in Conns : SessionEnd(c)) /\ LockFrame)
    /\ WF_vars(CloseResults /\ LockFrame)
    /\ WF_vars(RangeResults /\ LockFrame)


\* ---------------------------------------------------------------------
\* C1: whenever Begin succeeded and control has left WithTx, exactly one of
\* Commit / Rollback was invoked: Commit when fn returned nil, Rollback
\* when fn returned an error, Rollback and never Commit when fn panicked;
\* while WithTx is still running at most one of them has been invoked.
\* ---------------------------------------------------------------------
C1_ExactlyOneCommitOrRollback ==
    /\ commitCalls + rollbackCalls <= 1
    /\ (txpc \in {"returned", "panicked"} /\ fnResult # None) =>
          /\ commitCalls + rollbackCalls = 1
          /\ fnResult = "nil" => commitCalls = 1
          /\ fnResult = "err" => rollbackCalls = 1
          /\ fnResult = "panic" => (rollbackCalls = 1 /\ commitCalls = 0)

C1_Witness ==
    /\ txpc = "panicked"
    /\ fnResult = "panic"
    /\ rollbackCalls = 1
    /\ stmts > 0

\* ---------------------------------------------------------------------
\* C2: when fn returned error e, the value WithTx returns is e or wraps e
\* (errors.Is(ret, e)), also when Rollback failed; when fn panicked with p
\* the panic leaving WithTx carries p.
\* ---------------------------------------------------------------------
C2_OriginalErrorSurfaced ==
    /\ (txpc = "returned" /\ fnResult = "err") =>
          /\ fnErr \in FnErrs
          /\ ErrorsIs(ret, fnErr)
    /\ (txpc = "panicked") =>
          /\ fnResult = "panic"
          /\ fnPanic \in PanicVals
          /\ panicVal = fnPanic

C2_Witness ==
    /\ txpc = "returned"
    /\ fnResult = "err"
    /\ ret.text = "rollback failed"
    /\ ret.unwrap = <<fnErr>>

C7_TotalIsIdlePlusInUse ==
    /\ AcquiredConns <= TotalConns
    /\ TotalConns <= MaxConns
    /\ TotalConns = IdleConns + AcquiredConns

\* ---------------------------------------------------------------------
\* C7 (amended): in every reachable state inUse <= total <= max and
\* total = idle + inUse + the connections still being established; an
\* acquire issued while max connections are in use adds no connection.
\* ---------------------------------------------------------------------
C7_PoolNeverExceedsMax ==
    /\ AcquiredConns <= TotalConns
    /\ TotalConns <= MaxConns
    /\ TotalConns = IdleConns + AcquiredConns + ConstructingConns
    /\ \A c \in Conns : poolConn[c] \in {"leased", "constructing"} =>
          Cardinality({w \in Handles : res[w] = c}) = 1

C7_Witness ==
    /\ AcquiredConns = MaxConns
    /\ released
    /\ \E w \in Callers : cpc[w] = "start"

\* ---------------------------------------------------------------------
\* C9: a Release call on a lease that was already released changes nothing
\* in the pool: total, idle and inUse stay as the first Release left them
\* and no connection changes its place.
\* ---------------------------------------------------------------------
C9_ReleaseIdempotent ==
    [][\A w \in Callers :
          (releaseCalls[w] = 1 /\ releaseCalls'[w] = 2) =>
              /\ poolConn' = poolConn
              /\ TotalConns' = TotalConns
              /\ IdleConns' = IdleConns
              /\ AcquiredConns' = AcquiredConns]_vars

C9_Witness ==
    \E w, x \in Callers :
        /\ releaseCalls[w] = 2
        /\ res[w] = 0
        /\ x # w
        /\ cpc[x] = "holding"
        /\ AcquiredConns = 1
        /\ IdleConns = MaxConns - 1

\* ---------------------------------------------------------------------
\* The 'got lock, processing' section of a worker: from the granted
\* pg_try_advisory_lock up to its pg_advisory_unlock call.
\* ---------------------------------------------------------------------
InSection(w) == pc[w] \in {"sendGotLock", "work"}

C4_TryAcquireExclusive ==
    [][\A w \in Workers :
          (pc[w] = "trylock" /\ pc'[w] # "trylock") =>
              /\ lockOwner \notin {0, res[w]} => lockResult'[w] # "true"
              /\ (lockOwner = 0 /\ lockResult'[w] # "err") =>
                    (lockResult'[w] = "true" /\ lockOwner' = res[w])
              /\ lockResult'[w] = "true" => lockOwner' = res[w]]_vars

C4_Witness ==
    \E w, x, y \in Workers :
        /\ lockResult[w] = "false"
        /\ lockResult[x] = "true"
        /\ pc[x] \in {"sendReleased", "release", "done"}
        /\ lockResult[y] = "true"
        /\ InSection(y)
        /\ lockOwner = res[y]

C10_AtMostOneLeasePerGoroutine ==
    ~(Leased(ListenHandle) /\ Leased(ExecHandle))

\* the second lease is taken by the UPDATE of line 209 while conn, acquired
\* at line 170, is still held
C10_Witness ==
    /\ npc = "update"
    /\ xpc = "run"
    /\ Leased(ListenHandle)
    /\ Leased(ExecHandle)
    /\ res[ListenHandle] # res[ExecHandle]

\* ---------------------------------------------------------------------
\* C11: the listening connection goes back to the pool only after the
\* goroutine calling WaitForNotification on it has stopped: once conn is
\* released that goroutine is neither about to call, nor inside, nor just
\* back from WaitForNotification.
\* ---------------------------------------------------------------------
ListenerActive == lpc \in {"call", "wait", "send"}

C11_ReleasedAfterListenerStopped ==
    (npc = "done" /\ listening) => ~ListenerActive

\* conn is idle in the pool, free for the next Acquire, while the goroutine
\* is still blocked in WaitForNotification on it
C11_Witness ==
    /\ npc = "done"
    /\ lpc = "wait"
    /\ res[ListenHandle] = 0
    /\ \E c \in Conns : poolConn[c] = "idle" /\ ~broken[c]

Pipeline ==
    received \o notifyChan \o (IF pendingN = 0 THEN <<>> ELSE <<pendingN>>)
             \o srvQueue

C13_DeliveredInEmissionOrder ==
    \A i, j \in 1..Len(Pipeline) : i < j => Pipeline[i] < Pipeline[j]

C13_Witness ==
    /\ Len(received) = NumWaits
    /\ received[1] < received[2]
    /\ received[2] < received[3]

\* ---------------------------------------------------------------------
\* C14: a subscriber whose connection was never lost receives every event
\* emitted after LISTEN: once the forwarding goroutine has stopped, no
\* emitted notification is left undelivered.
\* ---------------------------------------------------------------------
Disconnected == \E c \in Conns : broken[c]

C15_StagingTableEndsWithTx ==
    /\ mpc \in {"idle", "returned", "create"} => ~tempExists
    /\ ~tempExists => staged = {}

C15_Witness ==
    /\ attempts = 3
    /\ successes = 1
    /\ mpc = "populate"
    /\ tempExists

\* ---------------------------------------------------------------------
\* C16: the merge is all-or-nothing: while it runs nothing of it is
\* committed; when it returns nil every row of sites that matches a queued
\* row carries the update and the other rows are untouched; when it
\* returns an error table sites is as it was when the merge began.
\* ---------------------------------------------------------------------
C16_MergeAllOrNothing ==
    /\ mpc \notin {"idle", "returned"} => sites = sitesBefore
    /\ (mpc = "returned" /\ mret = "nil") =>
          sites = JoinUpdate(sitesBefore, StagedRows)
    /\ (mpc = "returned" /\ mret = "err") => sites = sitesBefore

C16_Witness ==
    /\ mpc = "returned"
    /\ mret = "nil"
    /\ attempts = 2
    /\ successes = 1
    /\ sites # sitesBefore
    /\ \A s \in StagedRows : sites[s]["update_num"] = s

C18_InlineEqualsBulkLoad ==
    (jpc = "done" /\ Len(job) <= MaxRows) => inlineTable = copyTable

\* a job of one row into an empty table: the inline insert is rejected and
\* inserts nothing, the bulk-load inserts the row
C18_Witness ==
    /\ jpc = "done"
    /\ Len(job) = 1
    /\ table0 = EmptyTable
    /\ inlineDone = "err"
    /\ inlineTable = EmptyTable
    /\ copyDone = "ok"
    /\ copyTable[job[1]] = 1

\* ---------------------------------------------------------------------
\* C19: in a pipelined batch every queued statement is sent exactly once,
\* a failed statement fails alone (every statement but the first failing
\* one takes effect), and the count of successes the method reports is the
\* number of statements that took effect.
\* ---------------------------------------------------------------------
C19_PerStatementOutcome ==
    bpc = "done" =>
        /\ \A i \in Statements : issued[i] = 1
        /\ insertedCount = assetRows - rowsBefore
        /\ firstFail <= NumQueued => assetRows - rowsBefore = NumQueued - 1

\* the second of the statements failed: one success is reported, no row
\* was inserted
C19_Witness ==
    /\ bpc = "done"
    /\ firstFail = 2
    /\ insertedCount = 1
    /\ assetRows = rowsBefore
    /\ \A i \in Statements : issued[i] = 1

\* ---------------------------------------------------------------------
\* C20: when the seed program, started on an empty database, has ended
\* without a datastore error, table sites holds exactly NumSeedSites rows,
\* table assets exactly NumSeedAssets rows, and every asset's site_id is
\* the id of a row of sites.
\* ---------------------------------------------------------------------
C20_SeedCountsExact ==
    (seedRuns = 1 /\ seedpc \in {"done", "panicked"}) =>
        /\ seededSites = NumSeedSites
        /\ seededAssets = NumSeedAssets
        /\ assetSiteIds \subseteq 1..seededSites

\* every site was inserted, then a row drew manufacturer "HP": the program
\* panicked with part of the assets inserted and no datastore error
C20_Witness ==
    /\ seedRuns = 1
    /\ seedpc = "panicked"
    /\ seededSites = NumSeedSites
    /\ seededAssets = SeedBatchSize
    /\ seededAssets < NumSeedAssets
    /\ assetSiteIds # {}

\* ---------------------------------------------------------------------
\* C21: no datastore error inside a batch or merge operation is swallowed:
\* when a statement of partitioningDemo failed (the creation of a
\* partition, an insert of the telemetry batch), the run has reported an
\* error when it ends and has not gone on to print its results.
\* ---------------------------------------------------------------------
C21_NoErrorSwallowed ==
    (tpc = "done" /\ stmtFailed) => (errLogged /\ ~statsPrinted)

\* the three partitions were committed, the telemetry batch was rejected
\* for its row of next month, and the run ended printing its statistics
\* without an error logged
C21_Witness ==
    /\ tpc = "done"
    /\ partRuns = 1
    /\ ~partAborted
    /\ telemetryRows = 0
    /\ stmtFailed
    /\ ~errLogged
    /\ statsPrinted

\* ---------------------------------------------------------------------
\* C22: a connection on which an operation failed mid-operation (the link
\* was lost, the pipeline's Sync failed, the pipeline was left open) is
\* discarded: once the run that held it has released it, it is neither on
\* the free list nor leased again.
\* ---------------------------------------------------------------------
C22_FailedConnNeverReused ==
    \A c \in Conns :
        tainted[c] # 0 =>
            \/ poolConn[c] = "destroyed"
            \/ /\ poolConn[c] = "leased"
               /\ PipeConn = c
               /\ tainted[c] = pipeRuns
               /\ qpc # "done"

\* a Sync failed in the first run with its connection left open and not
\* closed; the connection was destroyed at the release and the second run
\* holds another one
C22_Witness ==
    /\ pipeRuns = 2
    /\ qpc = "queue"
    /\ \E c \in Conns :
         /\ tainted[c] = 1
         /\ ~broken[c]
         /\ poolConn[c] = "destroyed"
         /\ PipeConn # c
         /\ PipeConn # 0

\* ---------------------------------------------------------------------
\* C23: after any sequence of CreateSite, CreateAsset, DeleteAsset and
\* DeleteSite, every asset's site_id is the id of a row of sites; a
\* CreateAsset for a site that does not exist is rejected.
\* ---------------------------------------------------------------------
C23_EveryAssetHasSite ==
    \A a \in dbAssets : a.site_id \in dbSites

\* a site that had assets was deleted and its assets went with it, while
\* an asset of another site stays
C23_Witness ==
    /\ lastOp = "DeleteSite"
    /\ cascaded >= 1
    /\ dbAssets # {}
    /\ dbSites # {}

\* ---------------------------------------------------------------------
\* C24: nested scoped transactions are disallowed and a handle is unusable
\* after its call returned: a WithTx called from inside the fn of another
\* WithTx does not start a second transaction, and a statement through the
\* handle after WithTx has returned is rejected and changes nothing.
\* ---------------------------------------------------------------------
C24_NoNestedTxNoLateUse ==
    /\ Cardinality(OpenTxs) <= 1
    /\ lateRejected = lateExecs
    /\ lateExecs > 0 => nestCommitted = committedAtReturn

\* the fn of the outer WithTx called WithTx, whose fn wrote a row in a
\* transaction of its own while the outer transaction is open
C24_Witness ==
    /\ wpc[1] = "fn"
    /\ wpc[2] = "fn"
    /\ wpending[1] = 1
    /\ wpending[2] = 1

\* ---------------------------------------------------------------------
\* C25: WithTx returns nil if and only if fn was invoked, returned nil and
\* Commit succeeded; when Begin fails fn is never invoked and an error is
\* returned; when Commit fails an error is returned although fn succeeded.
\* ---------------------------------------------------------------------
C25_NilIffFnNilAndCommitted ==
    txpc = "returned" =>
        /\ (ret = NilErr) <=> (fnResult = "nil" /\ commitOk = "ok")
        /\ fnResult = None =>
               /\ ret # NilErr
               /\ stmts = 0
               /\ commitCalls = 0
               /\ rollbackCalls = 0
        /\ commitOk = "failed" => (fnResult = "nil" /\ ret # NilErr)

\* fn wrote a row and returned nil, Commit failed: WithTx returned the
\* error and the row is not durable
C25_Witness ==
    /\ txpc = "returned"
    /\ calls = 1
    /\ fnResult = "nil"
    /\ stmts = 1
    /\ commitOk = "failed"
    /\ ret # NilErr
    /\ committed = 0

\* ---------------------------------------------------------------------
\* C26: for every count >= 0, seedSites and seedAssets queue each of the
\* count rows exactly once, send batches of exactly SeedBatchSize
\* statements followed by one final batch of count mod SeedBatchSize
\* statements only when that is not zero, and stop at the first failing
\* batch, returning its error.
\* ---------------------------------------------------------------------
C26_BatchesExact ==
    /\ \A k \in 1..Len(sentBatches) :
           /\ sentBatches[k] >= 1
           /\ sentBatches[k] <= SeedBatchSize
           /\ k < Len(sentBatches) => sentBatches[k] = SeedBatchSize
    /\ SumSeq(sentBatches) <= count
    /\ \A r \in Rows : queuedTimes[r] <= 1
    /\ chunkpc = "done" =>
         /\ seedRet \in {"nil", "err"}
         /\ seedRet = "nil" =>
              /\ \A r \in Rows : queuedTimes[r] = IF r <= count THEN 1 ELSE 0
              /\ SumSeq(sentBatches) = count
              /\ count % SeedBatchSize # 0 =>
                     sentBatches[Len(sentBatches)] = count % SeedBatchSize
         /\ seedRet = "err" =>
              /\ sentBatches # <<>>
              /\ SumSeq(sentBatches) = loopI

\* seedAssets(count) with a full batch sent and a row left: the next row
\* drew manufacturer "HP" and the call ended in a panic, that row and the
\* rows after it never queued
C26_Witness ==
    /\ chunkpc = "done"
    /\ seedFn = "seedAssets"
    /\ seedRet = "panic"
    /\ sentBatches = <<SeedBatchSize>>
    /\ loopI = SeedBatchSize
    /\ count > loopI
    /\ queuedTimes[loopI + 1] = 0

\* ---------------------------------------------------------------------
\* C27: in advisoryLocksDemo, under every interleaving of the workers, the
\* results channel is closed only after every worker has finished sending,
\* no worker blocks forever on a send, and the demo terminates having
\* printed every message sent.
\* ---------------------------------------------------------------------
\* messages a finished worker has sent: two when it got the lock, one
\* otherwise
C27_DemoTerminatesAllPrinted ==
    /\ [](resultsClosed => \A w \in Workers : pc[w] = "done")
    /\ [](mainpc = "done" =>
            /\ resultsClosed
            /\ results = <<>>
            /\ printed = SumSeq([w \in Workers |->
                                  IF lockResult[w] = "true" THEN 2 ELSE 1]))
    /\ <>(mainpc = "done")

\* every worker got the lock in its turn: more messages were sent than
\* the channel holds, and all were printed
C27_Witness ==
    /\ mainpc = "done"
    /\ \A w \in Workers : lockResult[w] = "true"
    /\ printed = 2 * NumWorkers
    /\ printed > ResultsCap

\* ---------------------------------------------------------------------
\* C28: a connection is never returned to the pool while its session still
\* holds the advisory lock, on every path including a failed unlock call:
\* no connection on the free list holds the key, and a worker that has
\* leased a connection and not yet asked for the lock does not hold it.
\* ---------------------------------------------------------------------
C28_NoPooledConnHoldsKey ==
    /\ \A c \in Conns : poolConn[c] = "idle" => lockOwner # c
    /\ \A w \in Workers : pc[w] = "trylock" => lockOwner # res[w]

\* a worker got the lock, its unlock statement was refused on a live
\* connection, and it released the connection; another worker has leased
\* that connection, whose session holds the key before it asks
C28_Witness ==
    \E w, x \in Workers :
        /\ w # x
        /\ pc[w] = "done"
        /\ lockResult[w] = "true"
        /\ pc[x] = "trylock"
        /\ lockOwner = res[x]
        /\ ~broken[res[x]]

\* ---------------------------------------------------------------------
\* C29: in listenNotifyDemo notifyChan is closed at most once and never
\* sent to after it is closed, a send never blocks (at most NumWaits
\* notifications go into a queue of capacity NotifyCap), and the consuming
\* goroutine eventually terminates on every path, including when
\* WaitForNotification returns an error.
\* ---------------------------------------------------------------------
C29_ConsumerTerminates ==
    /\ [](/\ notifyClosed => lpc = "done"
          /\ lpc = "send" => Len(notifyChan) < NotifyCap
          /\ Len(notifyChan) <= li
          /\ li <= NumWaits)
    /\ (kpc = "range") ~> (kpc = "done")

\* WaitForNotification returned an error and the forwarding goroutine
\* returned without closing notifyChan: the consumer waits on the empty,
\* open channel, which nobody will close
C29_Witness ==
    /\ lpc = "returned"
    /\ ~notifyClosed
    /\ notifyChan = <<>>
    /\ kpc = "range"
    /\ npc = "done"

\* ---------------------------------------------------------------------
\* C30: the down migration undoes the up migration: it drops every object
\* the up migration creates, in an order in which no drop is refused for
\* a dependent object, so that after up and down the schema is empty and
\* up succeeds again.
\* ---------------------------------------------------------------------
C30_DownRestoresEmptySchema ==
    ~forced =>
        /\ stmtErrors = 0
        /\ (migpc = "idle" /\ version = 0 /\ ~dirty) => schema = {}
        /\ (migpc = "idle" /\ version = 1 /\ ~dirty) => schema = SchemaObjects

\* up, down and up again have succeeded: every object exists
C30_Witness ==
    /\ migpc = "idle"
    /\ ~forced
    /\ upsDone = 2
    /\ version = 1
    /\ ~dirty
    /\ schema = SchemaObjects
    /\ Cardinality(schema) = 16

====
